---- MODULE Spec2Model ----
(***************************************************************************)
(* Model of the zen HTTP framework: the rate limiter                       *)
(* (middleware/cors_test.go holds the rate limiter source), the handler    *)
(* chain of Context (pkg/zen/context.go), the ResponseWriter               *)
(* (response.go, pkg/zen/writer.go) and the Router (router.go and the      *)
(* older snapshots of it).                                                 *)
(*                                                                         *)
(* Time is counted in ticks, TicksPerSecond ticks to the second; token     *)
(* counts (float64 in the source) are kept in units of 1/TicksPerSecond    *)
(* token, so that elapsedSeconds * TokenRate is exact.                     *)
(***************************************************************************)
EXTENDS Integers, Sequences, FiniteSets, TLC

VARIABLES
    rl,         \* the RateLimiter: config, windows (key -> entry pointer), heap of entries
    now,        \* the clock read by time.Now()
    last,       \* the last isAllowed call: key, result, instant
    hist,       \* per key: start of the current window and calls allowed in it (observer)
    gor,        \* goroutines inside isIPBasedAllowed: position and locals
    variant,    \* which snapshot of the package serves: "root", "part000" or "pkg"
    phase,      \* "setup", "idle" (serving, no request), "running", "done"
    req,        \* the *http.Request being served
    c,          \* the *Context of the request
    w,          \* the http.ResponseWriter wrapped by c.Writer
    stack,      \* the call stack of the goroutine serving the request
    trace,      \* observer: handlers executed, status writes, Quit calls
    router,     \* the *Router: handlers table and globalMiddleware
    groups,     \* engine.groups: the RouterGroups
    arrays      \* the backing arrays of the middleware slices, where slices are modelled

vars == <<rl, now, last, hist, gor, variant, phase, req, c, w, stack, trace, router, groups,
          arrays>>
httpVars == <<variant, phase, req, c, w, stack, trace, router, groups, arrays>>

\* ---------------------------------------------------------------- bounds
MaxTime == 5
MaxLimit == 2
MaxBurst == 1
MaxWindow == 2
MaxBucket == 2
MaxRate == 1
TicksPerSecond == 2

Keys == {"A", "B"}

\* ------------------------------------------------------- rate limiter data
IPBased == "ip-based"
SlidingWindow == "sliding-window"
TokenBucket == "token-bucket"
Leaky == "leaky-bucket"
Adaptive == "adaptive"

NoEntry == 0
ZeroTime == 0

Max(a, b) == IF a > b THEN a ELSE b
Min(a, b) == IF a < b THEN a ELSE b

\* windowEntry{...}: the fields not named in a composite literal are zero
windowEntry(count, startTime, tokens, lastUpdate) ==
    [count |-> count, startTime |-> startTime, tokens |-> tokens,
     lastUpdate |-> lastUpdate, blocked |-> FALSE, blockedUntil |-> ZeroTime]

StatusTooManyRequests == 429

\* CustomErrorFunc is TRUE when the callback is set; ExcludePaths is a set of paths
RateLimitConfig(strategy, limit, burst, window, rate, bucket, block, leak) ==
    [Strategy |-> strategy, Limit |-> limit, BurstLimit |-> burst, Window |-> window,
     TokenRate |-> rate, BucketSize |-> bucket, BlockDuration |-> block, LeakRate |-> leak,
     StatusCode |-> StatusTooManyRequests, CustomErrorFunc |-> FALSE, ExcludePaths |-> {},
     MinLimit |-> 0, MaxLimit |-> 0, ScalingFactor |-> 0]

NewRateLimiter(config) ==
    [config |-> config, windows |-> [k \in Keys |-> NoEntry], heap |-> <<>>]

\* a limiter that keeps one entry for all keys
Store_shared(r, key, entry) ==
    [r EXCEPT !.heap = Append(r.heap, entry), !.windows = [k \in Keys |-> Len(r.heap) + 1]]

\* rl.windows.Store(key, &windowEntry{...}): a fresh entry, the key points at it
Store(r, key, entry) ==
    [r EXCEPT !.heap = Append(r.heap, entry), !.windows[key] = Len(r.heap) + 1]

\* the *windowEntry loaded for key
Entry(r, key) == r.heap[r.windows[key]]

\* assignment through the loaded pointer
SetEntry(r, key, entry) == [r EXCEPT !.heap[r.windows[key]] = entry]

Result(allowed, r) == [allowed |-> allowed, rl |-> r]

\* ---------------------------------------------------------------- float64
\* A positive float64 is a significand of MantissaBits bits, the most
\* significant first and equal to 1, and the exponent e of that bit: the value
\* is the sum of m[i] * 2^(e - i + 1).  Zero has the empty significand.  The
\* operands here are far from the subnormal and the overflow range.
MantissaBits == 53
FloatZero == [m |-> <<>>, e |-> 0]

\* n / d = q * 2^e with 1 <= q < 2, as the fraction n / d scaled
RECURSIVE Normalize(_, _, _)
Normalize(n, d, e) ==
    IF n < d THEN Normalize(2 * n, d, e - 1)
    ELSE IF n >= 2 * d THEN Normalize(n, 2 * d, e + 1)
    ELSE [n |-> n, d |-> d, e |-> e]

\* k binary digits of r / d by long division, and the remainder left
RECURSIVE LongDivision(_, _, _, _)
LongDivision(r, d, k, bits) ==
    IF k = 0 THEN [bits |-> bits, r |-> r]
    ELSE LET b == IF r >= d THEN 1 ELSE 0
         IN  LongDivision(2 * (r - b * d), d, k - 1, Append(bits, b))

\* bits + 1; one bit longer on a carry out
Increment(bits) ==
    LET zeros == { i \in DOMAIN bits : bits[i] = 0 }
        j == CHOOSE i \in zeros : \A k \in zeros : k <= i
    IN  IF zeros = {} THEN <<1>> \o [i \in DOMAIN bits |-> 0]
        ELSE [i \in DOMAIN bits |-> IF i < j THEN bits[i] ELSE IF i = j THEN 1 ELSE 0]

\* round to nearest, ties to even: bits are the leading digits of the exact
\* value (more than MantissaBits of them), rest tells whether nonzero digits
\* follow them, e is the exponent of bits[1]
RoundToNearestEven(bits, rest, e) ==
    LET kept == SubSeq(bits, 1, MantissaBits)
        guard == bits[MantissaBits + 1]
        sticky == rest \/ \E i \in (MantissaBits + 2)..Len(bits) : bits[i] = 1
        up == guard = 1 /\ (sticky \/ kept[MantissaBits] = 1)
        inc == Increment(kept)
    IN  IF ~up THEN [m |-> kept, e |-> e]
        ELSE IF Len(inc) > MantissaBits
             THEN [m |-> SubSeq(inc, 1, MantissaBits), e |-> e + 1]
             ELSE [m |-> inc, e |-> e]

\* float64(n) / float64(d) for integers 0 <= n, 0 < d that float64 holds exactly
FloatQuo(n, d) ==
    IF n = 0 THEN FloatZero
    ELSE LET s == Normalize(n, d, 0)
             q == LongDivision(s.n, s.d, MantissaBits + 1, <<>>)
         IN  RoundToNearestEven(q.bits, q.r > 0, s.e)

\* the binary digits of n, most significant first
RECURSIVE Binary(_)
Binary(n) == IF n = 0 THEN <<>> ELSE Append(Binary(n \div 2), n % 2)

\* the digits of bits * k + carry, followed by the digits low
RECURSIVE Times(_, _, _, _)
Times(bits, k, carry, low) ==
    IF bits = <<>> THEN Binary(carry) \o low
    ELSE Times(SubSeq(bits, 1, Len(bits) - 1), k,
               (bits[Len(bits)] * k + carry) \div 2,
               <<(bits[Len(bits)] * k + carry) % 2>> \o low)

\* float64(k) * x for an integer k >= 0 that float64 holds exactly
FloatMul(k, x) ==
    IF k = 0 \/ x.m = <<>> THEN FloatZero
    ELSE LET product == Times(x.m, k, 0, <<>>)
         IN  RoundToNearestEven(Append(product, 0), FALSE,
                                x.e + (Len(product) - MantissaBits))

\* the integer that bits denote
RECURSIVE Value(_)
Value(bits) ==
    IF bits = <<>> THEN 0
    ELSE 2 * Value(SubSeq(bits, 1, Len(bits) - 1)) + bits[Len(bits)]

\* int(x): the fraction is dropped
FloatToInt(x) ==
    IF x.m = <<>> \/ x.e < 0 THEN 0 ELSE Value(SubSeq(x.m, 1, x.e + 1))

\* float64(k) for an integer k >= 0 that float64 holds exactly
FloatOfInt(k) ==
    IF k = 0 THEN FloatZero
    ELSE [m |-> [i \in 1..MantissaBits |->
                   IF i <= Len(Binary(k)) THEN Binary(k)[i] ELSE 0],
          e |-> Len(Binary(k)) - 1]

\* float64(k) + x for an integer k >= 0 and 0 <= x < 1
FloatAddInt(k, x) ==
    IF x.m = <<>> THEN FloatOfInt(k)
    ELSE IF k = 0 THEN x
    ELSE RoundToNearestEven(Binary(k) \o [i \in 1..(-x.e - 1) |-> 0] \o x.m, FALSE,
                            Len(Binary(k)) - 1)

\* Duration.Seconds() of d ticks, tps ticks to the second: the whole seconds
\* plus the float64 quotient of the remaining nanoseconds by 1e9, which is the
\* quotient of the remaining ticks by tps
Seconds(d, tps) == FloatAddInt(d \div tps, FloatQuo(d % tps, tps))

\* ------------------------------------------------- rate limiter strategies
\* the fixed window with the comparison off by one (count <= limit)
isIPBasedAllowed_inclusive(r, key, t) ==
    IF r.windows[key] = NoEntry
    THEN Result(TRUE, Store(r, key, windowEntry(1, t, 0, ZeroTime)))
    ELSE LET entry == Entry(r, key) IN
         IF t - entry.startTime > r.config.Window
         THEN Result(TRUE, SetEntry(r, key, [entry EXCEPT !.count = 1, !.startTime = t]))
         ELSE IF entry.count <= r.config.Limit + r.config.BurstLimit
              THEN Result(TRUE, SetEntry(r, key, [entry EXCEPT !.count = entry.count + 1]))
              ELSE Result(FALSE, r)

\* isIPBasedAllowed: the fixed window
isIPBasedAllowed(r, key, t) ==
    IF r.windows[key] = NoEntry
    THEN Result(TRUE, Store(r, key, windowEntry(1, t, 0, ZeroTime)))
    ELSE LET entry == Entry(r, key) IN
         IF t - entry.startTime > r.config.Window
         THEN Result(TRUE, SetEntry(r, key, [entry EXCEPT !.count = 1, !.startTime = t]))
         ELSE IF entry.count < r.config.Limit + r.config.BurstLimit
              THEN Result(TRUE, SetEntry(r, key, [entry EXCEPT !.count = entry.count + 1]))
              ELSE Result(FALSE, r)

\* isSlidingWindowAllowed; weight and the product are float64 values and
\* int(...) drops the fraction of the product
isSlidingWindowAllowed(r, key, t) ==
    IF r.windows[key] = NoEntry
    THEN Result(TRUE, Store(r, key, windowEntry(1, t, 0, ZeroTime)))
    ELSE LET entry == Entry(r, key)
             windowDuration == t - entry.startTime
             overlap == Max(0, r.config.Window - (windowDuration - r.config.Window))
             weight == FloatQuo(overlap, r.config.Window)
             previousCount == FloatToInt(FloatMul(entry.count, weight))
         IN  IF windowDuration > r.config.Window
             THEN Result(previousCount + 1 < r.config.Limit + r.config.BurstLimit,
                         SetEntry(r, key, [entry EXCEPT !.count = previousCount + 1,
                                                        !.startTime = t]))
             ELSE IF entry.count < r.config.Limit + r.config.BurstLimit
                  THEN Result(TRUE, SetEntry(r, key, [entry EXCEPT !.count = entry.count + 1]))
                  ELSE Result(FALSE, r)

\* a block that ends one tick early
Blocked_early(entry, t) == entry.blocked /\ t + 1 < entry.blockedUntil

\* entry.blocked && now.Before(entry.blockedUntil)
Blocked(entry, t) == entry.blocked /\ t < entry.blockedUntil

\* the token bucket allowing a call that finds exactly one token
isTokenBucketAllowed_atLeast(r, key, t) ==
    IF r.windows[key] = NoEntry
    THEN Result(TRUE, Store(r, key,
                windowEntry(0, ZeroTime, r.config.BucketSize * TicksPerSecond, t)))
    ELSE LET entry == Entry(r, key)
             newTokens == (t - entry.lastUpdate) * r.config.TokenRate
             refilled == [entry EXCEPT
                            !.tokens = Min(r.config.BucketSize * TicksPerSecond,
                                           entry.tokens + newTokens),
                            !.lastUpdate = t]
         IN  IF Blocked(entry, t)
             THEN Result(FALSE, r)
             ELSE IF refilled.tokens >= TicksPerSecond
                  THEN Result(TRUE, SetEntry(r, key,
                              [refilled EXCEPT !.tokens = refilled.tokens - TicksPerSecond]))
                  ELSE IF r.config.BlockDuration > 0
                       THEN Result(FALSE, SetEntry(r, key,
                                   [refilled EXCEPT !.blocked = TRUE,
                                                    !.blockedUntil = t + r.config.BlockDuration]))
                       ELSE Result(FALSE, SetEntry(r, key, refilled))

\* isTokenBucketAllowed; tokens are in units of 1/TicksPerSecond token
isTokenBucketAllowed(r, key, t) ==
    IF r.windows[key] = NoEntry
    THEN Result(TRUE, Store(r, key,
                windowEntry(0, ZeroTime, r.config.BucketSize * TicksPerSecond, t)))
    ELSE LET entry == Entry(r, key)
             newTokens == (t - entry.lastUpdate) * r.config.TokenRate
             refilled == [entry EXCEPT
                            !.tokens = Min(r.config.BucketSize * TicksPerSecond,
                                           entry.tokens + newTokens),
                            !.lastUpdate = t]
         IN  IF Blocked(entry, t)
             THEN Result(FALSE, r)
             ELSE IF refilled.tokens > TicksPerSecond
                  THEN Result(TRUE, SetEntry(r, key,
                              [refilled EXCEPT !.tokens = refilled.tokens - TicksPerSecond]))
                  ELSE IF r.config.BlockDuration > 0
                       THEN Result(FALSE, SetEntry(r, key,
                                   [refilled EXCEPT !.blocked = TRUE,
                                                    !.blockedUntil = t + r.config.BlockDuration]))
                       ELSE Result(FALSE, SetEntry(r, key, refilled))

\* isLeakyBucketAllowed with a clock of tps ticks to the second; elapsed and
\* the product are float64 values and int(...) drops the fraction
LeakyBucketAllowed(r, key, t, tps) ==
    IF r.windows[key] = NoEntry
    THEN Result(TRUE, Store(r, key, windowEntry(1, ZeroTime, 0, t)))
    ELSE LET entry == Entry(r, key)
             elapsed == Seconds(t - entry.lastUpdate, tps)
             leaked == FloatToInt(FloatMul(r.config.LeakRate, elapsed))
             drained == [entry EXCEPT !.count = Max(0, entry.count - leaked),
                                      !.lastUpdate = t]
         IN  IF drained.count < r.config.Limit
             THEN Result(TRUE, SetEntry(r, key, [drained EXCEPT !.count = drained.count + 1]))
             ELSE Result(FALSE, SetEntry(r, key, drained))

\* isLeakyBucketAllowed
isLeakyBucketAllowed(r, key, t) == LeakyBucketAllowed(r, key, t, TicksPerSecond)

\* math.Pow(x, y) for x = 0 or x = 1 and y > 0 (+Inf included, which is what
\* currentRate / float64(Limit) is when Limit = 0): Pow(1, y) = 1, Pow(0, y) = 0
Pow(x) == x

\* isAdaptiveAllowed, for a ScalingFactor of 0 or 1
isAdaptiveAllowed(r, key, t) ==
    IF r.windows[key] = NoEntry
    THEN Result(TRUE, Store(r, key, windowEntry(1, t, 0, ZeroTime)))
    ELSE LET entry == Entry(r, key)
             windowDuration == t - entry.startTime
             newLimit == r.config.Limit * Pow(r.config.ScalingFactor)
             bounded == Max(r.config.MinLimit, Min(r.config.MaxLimit, newLimit))
         IN  IF windowDuration > r.config.Window
             THEN Result(TRUE, [SetEntry(r, key, [entry EXCEPT !.count = 1, !.startTime = t])
                                  EXCEPT !.config.Limit = bounded])
             ELSE IF entry.count < r.config.Limit
                  THEN Result(TRUE, SetEntry(r, key, [entry EXCEPT !.count = entry.count + 1]))
                  ELSE Result(FALSE, r)

\* isAllowed: the switch on the strategy, IP-based by default
isAllowed(r, key, t) ==
    CASE r.config.Strategy = TokenBucket -> isTokenBucketAllowed(r, key, t)
      [] r.config.Strategy = Leaky -> isLeakyBucketAllowed(r, key, t)
      [] r.config.Strategy = Adaptive -> isAdaptiveAllowed(r, key, t)
      [] r.config.Strategy = SlidingWindow -> isSlidingWindowAllowed(r, key, t)
      [] OTHER -> isIPBasedAllowed(r, key, t)

\* the observer's window: a call opens one when the key has none or more than
\* Window has elapsed since the start of the current one
Opens(h, t, window) == ~h.open \/ t - h.start > window

Observe(h, t, window, allowed) ==
    IF Opens(h, t, window)
    THEN [open |-> TRUE, start |-> t, allowed |-> IF allowed THEN 1 ELSE 0, n |-> h.n + 1]
    ELSE [h EXCEPT !.allowed = h.allowed + (IF allowed THEN 1 ELSE 0)]

\* ------------------------------------------------------------ HTTP values
StatusOK == 200
StatusNoContent == 204
StatusUnauthorized == 401
StatusForbidden == 403
StatusNotFound == 404
StatusBadRequest == 400
StatusRequestEntityTooLarge == 413
StatusInternalServerError == 500

NoRequest == [method |-> "", path |-> <<>>, token |-> "", ip |-> ""]
NoWriter == [status |-> 0, body |-> <<>>]
NoTrace == <<>>
NoContext == [Handlers |-> <<>>, Index |-> -1, Params |-> {},
              StatusCode |-> 0, headerWritten |-> FALSE, requestCtx |-> "", Ctx |-> ""]
NewRouter == [handlers |-> {}, globalMiddleware |-> <<>>]

\* ------------------------------------------------------- ResponseWriter
\* the embedded http.ResponseWriter (net/http): the first WriteHeader is the
\* one sent, a superfluous one is dropped; Write sends 200 if no header was sent
ResponseWriter_WriteHeader(wr, code) ==
    IF wr.status = 0 THEN [wr EXCEPT !.status = code] ELSE wr

ResponseWriter_Write(wr, body) ==
    [status |-> IF wr.status = 0 THEN StatusOK ELSE wr.status,
     body |-> IF body = "" THEN wr.body ELSE Append(wr.body, body)]

\* a request in progress: the Context (with its Writer's fields) and the wire
Serving(cx, wr) == [c |-> cx, w |-> wr]

\* ResponseWriter.WriteHeader of response.go (and of part_020): write once
WriteHeader(s, code) ==
    IF s.c.headerWritten
    THEN s
    ELSE Serving([s.c EXCEPT !.StatusCode = code, !.headerWritten = TRUE],
                 ResponseWriter_WriteHeader(s.w, code))

\* ResponseWriter.WriteHeader of pkg/zen/writer.go: no guard
WriteHeader_pkg(s, code) ==
    Serving([s.c EXCEPT !.StatusCode = code], ResponseWriter_WriteHeader(s.w, code))

\* c.Writer.WriteHeader of the snapshot that serves
Writer_WriteHeader(v, s, code) ==
    IF v = "pkg" THEN WriteHeader_pkg(s, code) ELSE WriteHeader(s, code)

\* c.Writer.Write: the embedded writer's Write
Writer_Write(s, body) == Serving(s.c, ResponseWriter_Write(s.w, body))

\* ResponseWriter.Status: 200 when no status code is set
Status(cx) == IF cx.StatusCode = 0 THEN StatusOK ELSE cx.StatusCode

\* ---------------------------------------------------------------- Context
NewContext == NoContext

\* Context.Status, Context.Text and Context.JSON: WriteHeader, then the body
Context_Status(v, s, code) == Writer_WriteHeader(v, s, code)
Context_Text(v, s, code, body) == Writer_Write(Writer_WriteHeader(v, s, code), body)
Context_JSON(v, s, code, body) == Writer_Write(Writer_WriteHeader(v, s, code), body)

\* Context.Quit
Quit_keep(cx) == cx

Quit(cx) == [cx EXCEPT !.Index = Len(cx.Handlers)]

\* Context.Next: c.Index++ on entry, and again after each handler of the loop
Advance_skip(cx) == [cx EXCEPT !.Index = cx.Index + 2]

Advance(cx) == [cx EXCEPT !.Index = cx.Index + 1]

\* ------------------------------------------------- handlers put in chains
\* what a handler does, as the calls it makes on its Context
Op(name) == [op |-> name, code |-> 0, body |-> ""]
WriteOp(name, code, body) == [op |-> name, code |-> code, body |-> body]

ErrMissingToken == "missing authorization token"
ErrInvalidToken == "invalid authorization token"

Tokens == {"missing", "malformed", "badsignature", "expired", "valid"}

\* paths of requests sent to a bare chain; SkipPath is in AuthConfig.SkipPaths
\* and in RateLimitConfig.ExcludePaths
PlainPath == <<"/", "a">>
SkipPath == <<"/", "s">>

\* handlers of the tests and examples: middleware that calls Next ("G", "P", "L"),
\* route handlers ("H", "H2"), a handler that does nothing ("N"), handlers that
\* call Quit ("Q"), Quit before or after Next ("QN", "NQ"), that write a status and return
\* ("W"), the Auth middleware and the rate limiter middleware, the Recovery
\* middleware ("Recovery": z.Next() under its deferred function), a handler that
\* panics ("X") and one that reads the claims with GetClaims ("GC")
Script(h) ==
    CASE h \in {"G", "P", "L"} -> <<Op("next")>>
      [] h = "H" -> <<WriteOp("Text", StatusOK, "ok")>>
      [] h = "H2" -> <<WriteOp("Text", StatusOK, "ok2")>>
      [] h = "N" -> <<>>
      [] h = "Q" -> <<Op("quit")>>
      [] h = "QN" -> <<Op("quit"), Op("next")>>
      [] h = "NQ" -> <<Op("next"), Op("quit")>>
      [] h = "W" -> <<WriteOp("Status", StatusForbidden, "")>>
      [] h = "Auth" -> <<Op("auth")>>
      [] h = "RL" -> <<Op("ratelimit")>>
      [] h = "Recovery" -> <<Op("next")>>
      [] h = "X" -> <<Op("panic")>>
      [] h = "GC" -> <<Op("getclaims")>>
      [] h \in {"Security", "SecurityIP", "SecurityCustom"} -> <<Op("security")>>

\* what a handler has deferred: Recovery defers the function that recovers
Deferred(h) == IF h = "Recovery" THEN "recover" ELSE ""

\* the deferred function of Recovery when recover() returns a panic value
Recovered == <<WriteOp("JSON", StatusInternalServerError, "Internal Server Error")>>

\* AuthWithConfig, the returned handler: skip path, token extraction and
\* validation, then Unauthorized (the default writes 401 as JSON) or the claims
AuthScript(request) ==
    IF request.path = SkipPath THEN <<Op("next")>>
    ELSE IF request.token = "missing"
         THEN <<WriteOp("JSON", StatusUnauthorized, ErrMissingToken), Op("rejected")>>
    ELSE IF request.token # "valid"
         THEN <<WriteOp("JSON", StatusUnauthorized, ErrInvalidToken), Op("rejected")>>
    ELSE <<Op("claims")>>

\* RateLimiterMiddleware, the returned handler after isAllowed: the custom
\* callback (the one of docs/rate_limiter.md) or the rate-limit text, then Quit
Denied_noQuit(config) ==
    IF config.CustomErrorFunc
    THEN <<WriteOp("JSON", StatusTooManyRequests, "Too many requests")>>
    ELSE <<WriteOp("Text", config.StatusCode, "Rate limit exceeded")>>

Denied(config) ==
    IF config.CustomErrorFunc
    THEN <<WriteOp("JSON", StatusTooManyRequests, "Too many requests"), Op("quit")>>
    ELSE <<WriteOp("Text", config.StatusCode, "Rate limit exceeded"), Op("quit")>>

\* ------------------------------------------------- running a handler chain
Frame(fn, idx, script, post) == [fn |-> fn, idx |-> idx, script |-> script, post |-> post]
Top == stack[Len(stack)]
Pop == SubSeq(stack, 1, Len(stack) - 1)
Push(f) == Append(stack, f)
Rest == [stack EXCEPT ![Len(stack)].script = Tail(Top.script)]
Event(ev, idx, code) == [ev |-> ev, idx |-> idx, code |-> code]
Log(ev, idx, code) == Append(trace, Event(ev, idx, code))

Running(fn) == phase = "running" /\ stack # <<>> /\ Top.fn = fn
AtOp(names) == Running("handler") /\ Top.script # <<>> /\ Head(Top.script).op \in names

\* the for loop of Context.Next: run c.Handlers[c.Index] or leave the loop
NextLoop ==
    /\ Running("Next")
    /\ IF c.Index < Len(c.Handlers)
       THEN /\ stack' = Push(Frame("handler", c.Index, Script(c.Handlers[c.Index + 1]),
                                     Deferred(c.Handlers[c.Index + 1])))
            /\ trace' = Log("exec", c.Index, 0)
       ELSE /\ stack' = Pop
            /\ UNCHANGED trace
    /\ UNCHANGED <<c, w, req, phase, variant, router, groups, arrays, rl, now, last, hist, gor>>

\* the handler returns into the loop, which does c.Index++
HandlerReturn ==
    /\ Running("handler")
    /\ Top.script = <<>>
    /\ stack' = Pop
    /\ c' = Advance(c)
    /\ trace' = Log("return", Top.idx, 0)
    /\ UNCHANGED <<w, req, phase, variant, router, groups, arrays, rl, now, last, hist, gor>>

\* the handler calls c.Next()
CallNext ==
    /\ AtOp({"next"})
    /\ stack' = Append(Rest, Frame("Next", -1, <<>>, ""))
    /\ c' = Advance(c)
    /\ trace' = Log("next", Top.idx, 0)
    /\ UNCHANGED <<w, req, phase, variant, router, groups, arrays, rl, now, last, hist, gor>>

\* the handler calls c.Quit()
CallQuit ==
    /\ AtOp({"quit"})
    /\ stack' = Rest
    /\ c' = Quit(c)
    /\ trace' = Log("quit", Top.idx, 0)
    /\ UNCHANGED <<w, req, phase, variant, router, groups, arrays, rl, now, last, hist, gor>>

\* the handler calls c.Status, c.Text or c.JSON
CallWrite ==
    /\ AtOp({"Status", "Text", "JSON"})
    /\ LET o == Head(Top.script)
           s == CASE o.op = "Status" -> Context_Status(variant, Serving(c, w), o.code)
                  [] o.op = "Text" -> Context_Text(variant, Serving(c, w), o.code, o.body)
                  [] o.op = "JSON" -> Context_JSON(variant, Serving(c, w), o.code, o.body)
       IN  /\ c' = s.c
           /\ w' = s.w
           /\ trace' = Log("write", Top.idx, o.code)
    /\ stack' = Rest
    /\ UNCHANGED <<req, phase, variant, router, groups, arrays, rl, now, last, hist, gor>>

\* the Auth middleware decides on the request
CallAuth ==
    /\ AtOp({"auth"})
    /\ stack' = [stack EXCEPT ![Len(stack)].script = AuthScript(req)]
    /\ UNCHANGED <<c, w, trace, req, phase, variant, router, groups, arrays, rl, now, last,
                   hist, gor>>

\* config.Unauthorized has returned and the Auth middleware returns
AuthRejected ==
    /\ AtOp({"rejected"})
    /\ stack' = Rest
    /\ trace' = Log("rejected", Top.idx, 0)
    /\ UNCHANGED <<c, w, req, phase, variant, router, groups, arrays, rl, now, last, hist, gor>>

\* c.Request = c.Request.WithContext(newCtx.Ctx): the claims go into the
\* request's context
AuthClaims ==
    /\ AtOp({"claims"})
    /\ stack' = Rest
    /\ c' = [c EXCEPT !.requestCtx = "claims"]
    /\ trace' = Log("claims", Top.idx, 0)
    /\ UNCHANGED <<w, req, phase, variant, router, groups, arrays, rl, now, last, hist, gor>>

\* GetClaims: c.Value(claimsKey{}) reads c.Ctx, asserted to the claims type
GetClaims ==
    /\ AtOp({"getclaims"})
    /\ stack' = Rest
    /\ trace' = Log(IF c.Ctx = "claims" THEN "ok" ELSE "noclaims", Top.idx, 0)
    /\ UNCHANGED <<c, w, req, phase, variant, router, groups, arrays, rl, now, last, hist, gor>>

\* frames of the call stack whose deferred function recovers
Recovering == { k \in DOMAIN stack : stack[k].post = "recover" }

\* a handler panics: the stack unwinds to the innermost frame that deferred a
\* recover, whose deferred function runs and whose handler then returns to its
\* caller; with no such frame the panic leaves the dispatch
Panic ==
    /\ AtOp({"panic"})
    /\ trace' = Log("panic", Top.idx, 0)
    /\ IF Recovering = {}
       THEN /\ stack' = <<>>
            /\ phase' = "panicked"
       ELSE LET k == CHOOSE i \in Recovering : \A j \in Recovering : j <= i
            IN  /\ stack' = Append(SubSeq(stack, 1, k - 1),
                                   Frame("handler", stack[k].idx, Recovered, ""))
                /\ UNCHANGED phase
    /\ UNCHANGED <<c, w, req, variant, router, groups, arrays, rl, now, last, hist, gor>>

\* a middleware that excludes no path
Excluded_none(config, path) == FALSE

\* the loop over cfg.ExcludePaths: c.Request.URL.Path == path for one of them
Excluded(config, path) == path \in config.ExcludePaths

\* the rate limiter middleware: excluded path, else isAllowed(CustomKeyFunc(c))
CallRateLimit ==
    /\ AtOp({"ratelimit"})
    /\ IF Excluded(rl.config, req.path)
       THEN /\ stack' = [stack EXCEPT ![Len(stack)].script = <<Op("next")>>]
            /\ UNCHANGED <<rl, last, hist, trace>>
       ELSE LET res == isAllowed(rl, req.ip, now) IN
            /\ rl' = res.rl
            /\ last' = [key |-> req.ip, allowed |-> res.allowed, at |-> now,
                        opened |-> Opens(hist[req.ip], now, rl.config.Window),
                        before |-> hist[req.ip].allowed]
            /\ hist' = [hist EXCEPT ![req.ip] =
                          Observe(hist[req.ip], now, rl.config.Window, res.allowed)]
            /\ stack' = [stack EXCEPT ![Len(stack)].script =
                           IF res.allowed THEN <<Op("next")>> ELSE Denied(rl.config)]
            /\ trace' = Log(IF res.allowed THEN "allowed" ELSE "denied", Top.idx, 0)
    /\ UNCHANGED <<c, w, req, phase, variant, router, groups, arrays, now, gor>>

\* ------------------------------------------------- the security middleware
HeaderSecurity == "HeaderSecurity"
RequestSanitization == "RequestSanitization"
IPSecurity == "IPSecurity"

\* the request headers setSecurityHeaders sets under DefaultSecurityConfig
SecurityHeaders ==
    {"Strict-Transport-Security", "Content-Security-Policy", "X-Content-Type-Options",
     "X-XSS-Protection", "X-Frame-Options", "Referrer-Policy"}

\* the configuration a security handler was built with: DefaultSecurityConfig
\* ("Security"), the same with the CustomErrorHandler of the documentation
\* ("SecurityCustom"), and one with the IPSecurity strategy ("SecurityIP")
SecurityConfig(h) ==
    [Strategies |-> IF h = "SecurityIP" THEN {IPSecurity}
                    ELSE {HeaderSecurity, RequestSanitization},
     MaxRequestSize |-> 2,
     SQLInjectionCheck |-> TRUE,
     XSSCheck |-> TRUE,
     BlockedIPs |-> IF h = "SecurityIP" THEN {"B"} ELSE {},
     AllowedIPs |-> IF h = "SecurityIP" THEN {"A"} ELSE {},
     CustomErrorHandler |-> h = "SecurityCustom"]

sqlPatterns ==
    {"UNION SELECT", "DROP TABLE", "DELETE FROM", "INSERT INTO", "--", ";--", ";", "/*",
     "*/", "@@"}
xssPatterns == {"<script", "javascript:", "onerror=", "onload=", "onclick=", "alert(", "eval("}

\* strings.ToLower on the pieces of text the requests and patterns are made of
ToLower(s) ==
    CASE s = "UNION SELECT" -> "union select"
      [] s = "DROP TABLE" -> "drop table"
      [] s = "Drop Table" -> "drop table"
      [] s = "DELETE FROM" -> "delete from"
      [] s = "INSERT INTO" -> "insert into"
      [] s = "<SCRIPT" -> "<script"
      [] OTHER -> s

\* strings.Contains(text, pattern), a text being the sequence of its pieces
Contains(text, pattern) == \E i \in DOMAIN text : text[i] = pattern

\* the raw query lowered, then every value of the parsed form lowered, against
\* every pattern lowered
containsPatterns(request, patterns) ==
    \/ \E pattern \in patterns :
          Contains([i \in DOMAIN request.query |-> ToLower(request.query[i])], ToLower(pattern))
    \/ \E value \in request.form : \E pattern \in patterns :
          Contains(<<ToLower(value)>>, ToLower(pattern))

NoError == [Code |-> 0, Message |-> ""]
securityError(code, message) == [Code |-> code, Message |-> message]

sanitizeRequest(request, cfg) ==
    IF request.ContentLength > cfg.MaxRequestSize
    THEN securityError(StatusRequestEntityTooLarge, "Request exceeds maximum allowed size")
    ELSE IF cfg.SQLInjectionCheck /\ containsPatterns(request, sqlPatterns)
    THEN securityError(StatusBadRequest, "Potential SQL injection detected")
    ELSE IF cfg.XSSCheck /\ containsPatterns(request, xssPatterns)
    THEN securityError(StatusBadRequest, "Potential XSS attack detected")
    ELSE NoError

enforceIPSecurity(request, cfg) ==
    IF request.ip \in cfg.BlockedIPs
    THEN securityError(StatusForbidden, "IP address is blocked")
    ELSE IF cfg.AllowedIPs # {} /\ request.ip \notin cfg.AllowedIPs
    THEN securityError(StatusForbidden, "IP address not allowed")
    ELSE NoError

\* handleSecurity: the first error of sanitizeRequest and enforceIPSecurity,
\* each run when its strategy is enabled
handleSecurity(request, cfg) ==
    LET sanitized == IF RequestSanitization \in cfg.Strategies
                     THEN sanitizeRequest(request, cfg) ELSE NoError
    IN  IF sanitized # NoError THEN sanitized
        ELSE IF IPSecurity \in cfg.Strategies THEN enforceIPSecurity(request, cfg)
        ELSE NoError

\* handleSecurityError: the custom handler (the one of the documentation
\* writes 400 as JSON) or c.Text(secErr.Code, secErr.Message); then the
\* middleware returns
handleSecurityError(err, cfg) ==
    IF cfg.CustomErrorHandler
    THEN <<WriteOp("JSON", StatusBadRequest, err.Message)>>
    ELSE <<WriteOp("Text", err.Code, err.Message)>>

\* the handler SecurityMiddleware returns: handleSecurity (which sets the
\* security headers on the request first), then handleSecurityError and
\* return, or c.Next()
CallSecurity ==
    /\ AtOp({"security"})
    /\ LET cfg == SecurityConfig(c.Handlers[Top.idx + 1])
           err == handleSecurity(req, cfg)
       IN  /\ req' = IF HeaderSecurity \in cfg.Strategies
                     THEN [req EXCEPT !.headers = @ \cup SecurityHeaders] ELSE req
           /\ stack' = [stack EXCEPT ![Len(stack)].script =
                          IF err = NoError THEN <<Op("next")>>
                          ELSE handleSecurityError(err, cfg)]
           /\ trace' = Log(IF err = NoError THEN "clean" ELSE "violation", Top.idx, err.Code)
    /\ UNCHANGED <<c, w, phase, variant, router, groups, arrays, rl, now, last, hist, gor>>

\* --------------------------------------- configurations the checks run over
WindowConfigs(strategy) ==
    { RateLimitConfig(strategy, l, b, win, 0, 0, 0, 0) :
        l \in 0..MaxLimit, b \in 0..MaxBurst, win \in 1..MaxWindow }

TokenConfigs ==
    { RateLimitConfig(TokenBucket, 0, 0, 0, tr, bs, bd, 0) :
        tr \in 0..MaxRate, bs \in 0..MaxBucket, bd \in {0, MaxWindow} }

LeakyConfigs ==
    { RateLimitConfig(Leaky, l, 0, 0, 0, 0, 0, lr) : l \in 0..MaxLimit, lr \in 0..MaxRate }

Configs == WindowConfigs(IPBased) \cup WindowConfigs(SlidingWindow)
             \cup TokenConfigs \cup LeakyConfigs

NoCall == [key |-> "", allowed |-> FALSE, at |-> 0, opened |-> FALSE, before |-> 0]
NoHist == [open |-> FALSE, start |-> 0, allowed |-> 0, n |-> 0]
NoGoroutines == <<>>
NoArrays == <<>>

\* ----------------------------------------- requests served by a bare chain
\* (as in context_test.go: c.Handlers = chain; c.Next())
MaxChain == 3
ChainHandlers == {"G", "H", "N", "Q", "QN", "NQ", "W", "Auth", "RL"}
Chains == UNION { [1..n -> ChainHandlers] : n \in 1..MaxChain }
Has(chain, h) == \E i \in DOMAIN chain : chain[i] = h

\* the limiter behind "RL": one call per window, SkipPath excluded
ChainLimiters(chain) ==
    { NewRateLimiter([RateLimitConfig(IPBased, 1, 0, MaxWindow, 0, 0, 0, 0)
                        EXCEPT !.ExcludePaths = {SkipPath}, !.CustomErrorFunc = custom]) :
        custom \in IF Has(chain, "RL") THEN BOOLEAN ELSE {FALSE} }

\* requests that differ in what some handler of the chain reads
RequestsFor(chain) ==
    { [method |-> "GET", path |-> path, token |-> token, ip |-> "A"] :
        path \in IF Has(chain, "Auth") \/ Has(chain, "RL")
                 THEN {PlainPath, SkipPath} ELSE {PlainPath},
        token \in IF Has(chain, "Auth") THEN Tokens ELSE {"missing"} }

InitChain ==
    /\ variant \in {"root", "pkg"}
    /\ phase = "idle"
    /\ req = NoRequest
    /\ c \in { [NewContext EXCEPT !.Handlers = chain] : chain \in Chains }
    /\ rl \in ChainLimiters(c.Handlers)
    /\ w = NoWriter
    /\ stack = <<>>
    /\ trace = NoTrace
    /\ router = NewRouter
    /\ groups = <<>>
    /\ now = 0
    /\ last = NoCall
    /\ hist = [k \in Keys |-> NoHist]
    /\ gor = NoGoroutines
    /\ arrays = NoArrays

\* a request arrives: NewContext, the chain is installed and c.Next() is called
BeginChain ==
    /\ phase \in {"idle", "done", "panicked"}
    /\ req' \in RequestsFor(c.Handlers)
    /\ c' = Advance([NewContext EXCEPT !.Handlers = c.Handlers])
    /\ w' = NoWriter
    /\ trace' = NoTrace
    /\ stack' = <<Frame("handle", -1, <<>>, ""), Frame("Next", -1, <<>>, "")>>
    /\ phase' = "running"
    /\ UNCHANGED <<variant, router, groups, arrays, rl, now, last, hist, gor>>

\* the outermost c.Next() has returned
FinishChain ==
    /\ Running("handle")
    /\ Top.post = ""
    /\ stack' = <<>>
    /\ phase' = "done"
    /\ UNCHANGED <<c, w, trace, req, variant, router, groups, arrays, rl, now, last, hist, gor>>

NextChain ==
    \/ BeginChain
    \/ NextLoop
    \/ HandlerReturn
    \/ CallNext
    \/ CallQuit
    \/ CallWrite
    \/ CallAuth
    \/ AuthRejected
    \/ AuthClaims
    \/ CallRateLimit
    \/ FinishChain

SpecChain == InitChain /\ [][NextChain]_vars

\* ---------------------------------- chains with Recovery, Auth and GetClaims
\* (the chains of the examples: Recovery and Auth ahead of the route handlers)
MiddlewareHandlers == {"Recovery", "X", "Auth", "GC", "H", "W"}
MiddlewareChains == UNION { [1..n -> MiddlewareHandlers] : n \in 1..MaxChain }

InitMiddleware ==
    /\ variant \in {"root", "pkg"}
    /\ phase = "idle"
    /\ req = NoRequest
    /\ c \in { [NewContext EXCEPT !.Handlers = chain] : chain \in MiddlewareChains }
    /\ rl \in ChainLimiters(c.Handlers)
    /\ w = NoWriter
    /\ stack = <<>>
    /\ trace = NoTrace
    /\ router = NewRouter
    /\ groups = <<>>
    /\ now = 0
    /\ last = NoCall
    /\ hist = [k \in Keys |-> NoHist]
    /\ gor = NoGoroutines
    /\ arrays = NoArrays

NextMiddleware ==
    \/ BeginChain
    \/ NextLoop
    \/ HandlerReturn
    \/ CallNext
    \/ CallWrite
    \/ CallAuth
    \/ AuthRejected
    \/ AuthClaims
    \/ GetClaims
    \/ Panic
    \/ FinishChain

SpecMiddleware == InitMiddleware /\ [][NextMiddleware]_vars

\* ------------------------------------------ chains with SecurityMiddleware
SecurityHandlers == {"Security", "SecurityIP", "SecurityCustom", "H", "G", "Q"}
MaxContentLength == 3
ClientIPs == {"A", "B", "C"}
Queries == {<<>>, <<"id=1">>, <<"q=", "Drop Table">>, <<"q=", "<SCRIPT", ">">>}

\* the values of r.Form after ParseForm on a request without a body
FormOf(query) == { query[i] : i \in DOMAIN query } \ {"q="}

SecurityRequests ==
    { [method |-> "GET", path |-> PlainPath, token |-> "missing", ip |-> ip,
       ContentLength |-> size, query |-> query, form |-> FormOf(query), headers |-> {}] :
        ip \in ClientIPs, size \in {0, MaxContentLength}, query \in Queries }

InitSecurity ==
    /\ variant \in {"root", "pkg"}
    /\ phase = "idle"
    /\ req = NoRequest
    /\ c \in { [NewContext EXCEPT !.Handlers = chain] :
                 chain \in UNION { [1..n -> SecurityHandlers] : n \in 1..MaxChain } }
    /\ rl \in ChainLimiters(c.Handlers)
    /\ w = NoWriter
    /\ stack = <<>>
    /\ trace = NoTrace
    /\ router = NewRouter
    /\ groups = <<>>
    /\ now = 0
    /\ last = NoCall
    /\ hist = [k \in Keys |-> NoHist]
    /\ gor = NoGoroutines
    /\ arrays = NoArrays

\* a request arrives: NewContext, the chain is installed and c.Next() is called
BeginSecurity ==
    /\ phase \in {"idle", "done"}
    /\ req' \in SecurityRequests
    /\ c' = Advance([NewContext EXCEPT !.Handlers = c.Handlers])
    /\ w' = NoWriter
    /\ trace' = NoTrace
    /\ stack' = <<Frame("handle", -1, <<>>, ""), Frame("Next", -1, <<>>, "")>>
    /\ phase' = "running"
    /\ UNCHANGED <<variant, router, groups, arrays, rl, now, last, hist, gor>>

NextSecurity ==
    \/ BeginSecurity
    \/ NextLoop
    \/ HandlerReturn
    \/ CallNext
    \/ CallQuit
    \/ CallWrite
    \/ CallSecurity
    \/ FinishChain

SpecSecurity == InitSecurity /\ [][NextSecurity]_vars

\* ------------------------------------------------------ chain properties
Events == DOMAIN trace
After(p) == (p + 1)..Len(trace)
ExecutedAfter(p) == { q \in After(p) : trace[q].ev = "exec" }

\* the handler whose return is logged at p called neither Next nor Quit
PlainReturn(p) ==
    /\ trace[p].ev = "return"
    /\ ~\E q \in 1..p : trace[q].idx = trace[p].idx /\ trace[q].ev \in {"next", "quit"}

\* C2: when Auth rejects a request, no handler after it in the chain runs.
C2_AuthRejectHalts ==
    \A p \in Events :
        trace[p].ev = "rejected" =>
            \A q \in ExecutedAfter(p) : trace[q].idx <= trace[p].idx

\* C3 as stated: a handler that returns without calling Next or Quit stops
\* the chain, no handler at a later index runs.
C3_Original ==
    \A p \in Events :
        PlainReturn(p) => \A q \in ExecutedAfter(p) : trace[q].idx <= trace[p].idx

\* C3 amended: a handler that returns without calling Next or Quit does not
\* stop the chain; the loop of Next that invoked it executes the handler at the
\* next index, if there is one, right after the return.
C3_ReturnContinues ==
    \A p \in Events :
        (PlainReturn(p) /\ trace[p].idx + 1 < Len(c.Handlers)) =>
            /\ phase = "done" => p < Len(trace)
            /\ p < Len(trace) => trace[p + 1] = Event("exec", trace[p].idx + 1, 0)

\* a do-nothing handler returned and the handler after it ran
C3_Witness ==
    /\ phase = "done"
    /\ \E p \in Events :
          /\ PlainReturn(p)
          /\ c.Handlers[trace[p].idx + 1] = "N"
          /\ p < Len(trace)
          /\ trace[p + 1].ev = "exec"

\* C4: once a handler has called Quit, no handler is executed any more for the
\* request (none at a greater index in particular), whether Quit was called in
\* the outermost loop of Next or in a nested one, and a Next call made after
\* Quit executes nothing.
C4_QuitHalts ==
    \A p \in Events : trace[p].ev = "quit" => ExecutedAfter(p) = {}

\* Quit was called inside a nested Next, with handlers left, and Next was
\* called after it
C4_Witness ==
    /\ phase = "done"
    /\ \E p \in Events :
          /\ trace[p].ev = "quit"
          /\ trace[p].idx >= 1
          /\ trace[p].idx + 1 < Len(c.Handlers)
          /\ \E q \in 1..p : trace[q].ev = "next" /\ trace[q].idx < trace[p].idx
          /\ \E q \in After(p) : trace[q].ev = "next"

\* C5: the status recorded by the ResponseWriter and the one sent on the wire
\* are those of the first status write of the request.
Writes == { p \in Events : trace[p].ev = "write" }
FirstWrite == CHOOSE p \in Writes : \A q \in Writes : p <= q

C5_WriteOnce ==
    Writes # {} =>
        /\ c.StatusCode = trace[FirstWrite].code
        /\ w.status = trace[FirstWrite].code

\* the response the limiter writes when it denies
RateLimitResponse == Head(Denied(rl.config))

\* C8: a denied request gets the rate-limit response (the configured status
\* code, or what the custom callback writes) and no handler runs after the
\* denial; an allowed request goes on to the next handler of the chain.
C8_RateLimitHalts ==
    \A p \in Events :
        /\ trace[p].ev = "denied" =>
              /\ ExecutedAfter(p) = {}
              /\ phase = "done" =>
                    /\ \E q \in After(p) :
                          trace[q] = Event("write", trace[p].idx, RateLimitResponse.code)
                    /\ (\A q \in 1..p : trace[q].ev # "write") =>
                           /\ c.StatusCode = RateLimitResponse.code
                           /\ w = [status |-> RateLimitResponse.code,
                                   body |-> <<RateLimitResponse.body>>]
        /\ (trace[p].ev = "allowed" /\ trace[p].idx + 1 < Len(c.Handlers) /\ phase = "done") =>
              \E q \in After(p) : trace[q] = Event("exec", trace[p].idx + 1, 0)

\* the limiter denied a request with a handler placed after it
C8_Witness ==
    /\ phase = "done"
    /\ \E p \in Events :
          /\ trace[p].ev = "denied"
          /\ trace[p].idx + 1 < Len(c.Handlers)
          /\ w.status = StatusTooManyRequests

\* the handler only writes and returns: it calls neither Next nor Quit
OnlyWrites(h) == \A i \in DOMAIN Script(h) : Script(h)[i].op \in {"Status", "Text", "JSON"}
IsExec(e) == e.ev = "exec"

C23_QuitIndex ==
    (phase = "done" /\ \E p \in Events : trace[p].ev = "quit") => c.Index = Len(c.Handlers)

\* the limiter middleware at chain index i has been executed
LimiterRan(p) == trace[p].ev = "exec" /\ c.Handlers[trace[p].idx + 1] = "RL"

\* C36: a request whose path is one of ExcludePaths bypasses the limiter: the
\* key function and isAllowed are not called, no entry of the limiter is
\* created or modified, and the handler placed after the middleware is
\* executed, however many such requests are made.
C36_ExcludedBypass ==
    /\ [][req'.path \in rl.config.ExcludePaths =>
            rl' = rl /\ last' = last /\ hist' = hist]_vars
    /\ [](req.path \in rl.config.ExcludePaths =>
            /\ \A p \in Events : trace[p].ev \notin {"allowed", "denied"}
            /\ phase = "done" =>
                  \A p \in Events :
                      (LimiterRan(p) /\ trace[p].idx + 1 < Len(c.Handlers)) =>
                          \E q \in After(p) : trace[q] = Event("exec", trace[p].idx + 1, 0))

\* a request to an excluded path has run the handler behind the limiter after
\* an earlier request of the same client was counted
C36_Witness ==
    /\ phase = "done"
    /\ req.path \in rl.config.ExcludePaths
    /\ rl.windows[req.ip] # NoEntry
    /\ \E p \in Events :
          /\ LimiterRan(p)
          /\ \E q \in After(p) : trace[q] = Event("exec", trace[p].idx + 1, 0)

\* the executions of the handler at chain index i logged so far
ExecutionsOf(i) == { p \in Events : trace[p] = Event("exec", i, 0) }

\* C37: during a request the cursor Index never decreases, every position of
\* the chain is executed at most once, and when the outermost Next has
\* returned at most Len(c.Handlers) handler executions have taken place.
C37_CursorMonotone ==
    /\ [][(phase = "running" /\ phase' = "running") => c'.Index >= c.Index]_vars
    /\ [](\A i \in 0..(Len(c.Handlers) - 1) : Cardinality(ExecutionsOf(i)) <= 1)
    /\ [](phase = "done" => Len(SelectSeq(trace, IsExec)) <= Len(c.Handlers))

\* ------------------------------------------- Recovery and Auth properties
\* the panic logged at p is of a handler that has Recovery ahead of it
RecoveryAhead(p) ==
    /\ trace[p].ev = "panic"
    /\ \E i \in 1..trace[p].idx : c.Handlers[i] = "Recovery"

InternalErrors ==
    { p \in Events : trace[p].ev = "write" /\ trace[p].code = StatusInternalServerError }

\* C14: when a handler panics with Recovery ahead of it in the chain, the
\* panic does not leave the dispatch, and the response of the request has
\* status 500, written exactly once.
C14_PanicIsolated ==
    \A p \in Events :
        RecoveryAhead(p) =>
            /\ phase # "panicked"
            /\ phase = "done" => /\ w.status = StatusInternalServerError
                                 /\ Cardinality(InternalErrors) = 1

\* C38: after Recovery has recovered the panic of the handler at index i, no
\* handler at an index greater than i is executed for the request, and the
\* request ends with the 500 response of Recovery.
C38_RecoveredHalts ==
    \A p \in Events :
        RecoveryAhead(p) =>
            /\ \A q \in ExecutedAfter(p) : trace[q].idx <= trace[p].idx
            /\ phase = "done" => w.status = StatusInternalServerError

\* C40: when SecurityMiddleware detects a violation (request too large, SQL
\* injection or XSS pattern, blocked or not allowed IP) it writes the error
\* response and no handler placed after it in the chain is executed for the
\* request.
C40_ViolationHalts ==
    \A p \in Events :
        trace[p].ev = "violation" =>
            /\ phase = "done" => \E q \in After(p) :
                                     trace[q].ev = "write" /\ trace[q].idx = trace[p].idx
            /\ \A q \in ExecutedAfter(p) : trace[q].idx <= trace[p].idx

\* the claims read by the GetClaims logged at p were attached by Auth before
ClaimsRead(p) ==
    /\ trace[p].ev \in {"ok", "noclaims"}
    /\ \E q \in 1..p : trace[q].ev = "claims" /\ trace[q].idx < trace[p].idx

\* C20: after Auth has validated the token of a request, the chain continues
\* and GetClaims called by a later handler on the same Context returns the
\* claims with ok = true.
C20_ClaimsAttached ==
    \A p \in Events :
        /\ ClaimsRead(p) => trace[p].ev = "ok"
        /\ (trace[p].ev = "claims" /\ trace[p].idx + 1 < Len(c.Handlers) /\ phase = "done") =>
              \E q \in ExecutedAfter(p) : trace[q].idx = trace[p].idx + 1

\* ------------------------------------------------------------ the router
\* strings are sequences of one-character strings
MaxGlobal == 1
MaxGroups == 3
MaxRoutes == 1

Methods == {"GET", "OPTIONS"}
RouteMethods == {"GET", "OPTIONS"}
GlobalMiddleware == {"G", "W"}
GroupPrefix == <<"/", "a">>
Comps == {<<"/", "c">>, <<"/", ":", "x">>}
RequestPaths == {<<"/", "c">>, <<"/", "a", "/", ";">>, <<"/", "a", "/", "a", "/", "c">>}

\* the middleware a group applies: "P" for the first group made, "L" for the next
GroupMiddleware(g) == IF g = 2 THEN "P" ELSE "L"

\* strings.Split, here on any separator of seps
RECURSIVE Split(_, _)
Split(s, seps) ==
    IF \A i \in DOMAIN s : s[i] \notin seps
    THEN <<s>>
    ELSE LET i == CHOOSE k \in DOMAIN s :
                      s[k] \in seps /\ \A j \in 1..(k - 1) : s[j] \notin seps
         IN  <<SubSeq(s, 1, i - 1)>> \o Split(SubSeq(s, i + 1, Len(s)), seps)

\* strings.Trim(s, "/")
RECURSIVE Trim(_)
Trim(s) ==
    IF s # <<>> /\ Head(s) = "/" THEN Trim(Tail(s))
    ELSE IF s # <<>> /\ s[Len(s)] = "/" THEN Trim(SubSeq(s, 1, Len(s) - 1))
    ELSE s

NonEmpty(field) == field # <<>>

\* strings.FieldsFunc(s, splitTrim): the non-empty fields between '/' and ' '
FieldsFunc(s) == SelectSeq(Split(s, {"/", " "}), NonEmpty)

\* ValidationConfig of NewRouter, over the characters used here
maxLenght == 256
allowedPattern == {"a", "c", "n", "x", "1", "-", "_"}
dangerousPatterns == {"<", ">", ";", "'"}

validatePathParam(value) ==
    /\ value # <<>>
    /\ Len(value) <= maxLenght
    /\ \A i \in DOMAIN value : value[i] \notin dangerousPatterns
    /\ \A i \in DOMAIN value : value[i] \in allowedPattern

NoMatch == [ok |-> FALSE, params |-> {}]
HasPrefix(part) == part # <<>> /\ Head(part) = ":"

\* the loop over the parts of matchPath; params is the map name -> value
matchParts(patternParts, pathParts, validate) ==
    IF Len(patternParts) # Len(pathParts)
    THEN NoMatch
    ELSE LET named == { i \in DOMAIN patternParts : HasPrefix(patternParts[i]) }
             failed == { i \in DOMAIN patternParts :
                           IF i \in named
                           THEN validate /\ ~validatePathParam(pathParts[i])
                           ELSE patternParts[i] # pathParts[i] }
         IN  IF failed # {}
             THEN NoMatch
             ELSE [ok |-> TRUE,
                   params |-> { <<Tail(patternParts[i]), pathParts[i]>> :
                                  i \in { k \in named :
                                            \A j \in named :
                                                j > k => patternParts[j] # patternParts[k] } }]

matchPath_unvalidated(v, pattern, path) ==
    matchParts(Split(Trim(pattern), {"/"}), Split(Trim(path), {"/"}), FALSE)

\* matchPath of router.go; of part_000 and pkg/zen/router.go
matchPath(v, pattern, path) ==
    IF v = "root"
    THEN matchParts(FieldsFunc(pattern), FieldsFunc(path), TRUE)
    ELSE matchParts(Split(Trim(pattern), {"/"}), Split(Trim(path), {"/"}), FALSE)

\* a RouterGroup; parent, applied and parentApplied record how it was made:
\* the group it was created from, the middleware applied to it directly (for
\* the engine's own group: applied to the engine) and the middleware that had
\* been applied to the parent when it was created
RouterGroup(prefix, middlewares, parent, parentApplied) ==
    [prefix |-> prefix, middlewares |-> middlewares,
     parent |-> parent, applied |-> <<>>, parentApplied |-> parentApplied]

\* zen.New
New == <<RouterGroup(<<>>, <<>>, 0, <<>>)>>

\* RouterGroup.combineHandlers
combineHandlers(rtr, group, handler) ==
    rtr.globalMiddleware \o group.middlewares \o <<handler>>

Matching_anyMethod(v, rtr, method, path) ==
    { rt \in rtr.handlers : matchPath(v, rt.pattern, path).ok }

\* the routes of method whose pattern matches path (the map is ranged over in
\* any order)
Matching(v, rtr, method, path) ==
    { rt \in rtr.handlers : rt.method = method /\ matchPath(v, rt.pattern, path).ok }

\* Router.writeNotFound, and the same two writes inlined in the other routers
writeNotFound(v, s) == Writer_Write(Writer_WriteHeader(v, s, StatusNotFound), "404 NOT FOUND")

\* what handle does up to its call of c.Next(), or to its end when it calls none
Dispatch(s, handlers, params, post, log) ==
    [c |-> Advance([s.c EXCEPT !.Handlers = handlers, !.Params = params]),
     w |-> s.w, post |-> post, run |-> TRUE, log |-> log]
Direct(s, code) ==
    [c |-> s.c, w |-> s.w, post |-> "", run |-> FALSE, log |-> <<Event("write", -1, code)>>]

Arrived == Serving(NewContext, NoWriter)

\* Router.handleOptions
handleOptions_notFound(v, rtr, path) == { Direct(writeNotFound(v, Arrived), StatusNotFound) }

handleOptions(v, rtr, path) ==
    IF v = "pkg"
    THEN { Dispatch(Arrived, rtr.globalMiddleware, {}, "nocontent", <<>>) }
    ELSE IF Matching(v, rtr, "OPTIONS", path) # {}
    THEN { Dispatch(Arrived, rtr.globalMiddleware \o rt.handlers,
                    matchPath(v, rt.pattern, path).params, "", <<>>) :
             rt \in Matching(v, rtr, "OPTIONS", path) }
    ELSE IF Len(rtr.globalMiddleware) > 0
    THEN { Dispatch(Arrived, rtr.globalMiddleware, {}, "nocontent", <<>>) }
    ELSE { Direct(Context_JSON(v, Arrived, StatusNoContent, ""), StatusNoContent) }

\* Router.handle
handle(v, rtr, method, path) ==
    IF method = "OPTIONS"
    THEN handleOptions(v, rtr, path)
    ELSE IF Matching(v, rtr, method, path) # {}
    THEN { Dispatch(Arrived,
                    IF v = "pkg" THEN rtr.globalMiddleware \o rt.handlers ELSE rt.handlers,
                    matchPath(v, rt.pattern, path).params, "", <<>>) :
             rt \in Matching(v, rtr, method, path) }
    ELSE IF Len(rtr.globalMiddleware) > 0
    THEN IF v = "root"
         THEN { Dispatch(writeNotFound(v, Arrived), rtr.globalMiddleware, {}, "",
                         <<Event("write", -1, StatusNotFound)>>) }
         ELSE { Dispatch(Arrived, rtr.globalMiddleware, {}, "notfound", <<>>) }
    ELSE { Direct(writeNotFound(v, Arrived), StatusNotFound) }

InitRouter ==
    /\ variant \in {"root", "part000", "pkg"}
    /\ phase = "setup"
    /\ router = NewRouter
    /\ groups = New
    /\ req = NoRequest
    /\ c = NoContext
    /\ w = NoWriter
    /\ stack = <<>>
    /\ trace = NoTrace
    /\ rl = NewRateLimiter(RateLimitConfig(IPBased, 1, 0, 1, 0, 0, 0, 0))
    /\ now = 0
    /\ last = NoCall
    /\ hist = [k \in Keys |-> NoHist]
    /\ gor = NoGoroutines
    /\ arrays = NoArrays

servingVars == <<req, c, w, stack, trace, phase>>
limiterVars == <<rl, now, last, hist, gor>>

\* Engine.Apply (Router.Apply); in pkg/zen Engine.Use, which goes through the
\* engine's own group
EngineApply(m) ==
    /\ phase = "setup"
    /\ Len(groups[1].applied) < MaxGlobal
    /\ router' = [router EXCEPT !.globalMiddleware = Append(@, m)]
    /\ groups' = [groups EXCEPT ![1].applied = Append(@, m),
                                ![1].middlewares = IF variant = "pkg" THEN Append(@, m) ELSE @]
    /\ UNCHANGED <<variant, servingVars, limiterVars, arrays>>

\* RouterGroup.Apply; RouterGroup.Use of pkg/zen also adds to the router
GroupApply(g) ==
    /\ phase = "setup"
    /\ ~Has(groups[g].middlewares, GroupMiddleware(g))
    /\ groups' = [groups EXCEPT ![g].middlewares = Append(@, GroupMiddleware(g)),
                                ![g].applied = Append(@, GroupMiddleware(g))]
    /\ router' = IF variant = "pkg"
                 THEN [router EXCEPT !.globalMiddleware = Append(@, GroupMiddleware(g))]
                 ELSE router
    /\ UNCHANGED <<variant, servingVars, limiterVars, arrays>>

\* RouterGroup.GroupRoutes: router.go makes the new slice with length 0, so
\* copy copies nothing; the other routers make it with the parent's length
GroupRoutes(g) ==
    /\ phase = "setup"
    /\ Len(groups) < MaxGroups
    /\ groups' = Append(groups,
                        RouterGroup(groups[g].prefix \o GroupPrefix,
                                    IF variant = "root" THEN <<>> ELSE groups[g].middlewares,
                                    g, groups[g].applied))
    /\ UNCHANGED <<variant, router, servingVars, limiterVars, arrays>>

\* the entries of the table for (method, pattern)
Registered(rtr, method, pattern) ==
    { rt \in rtr.handlers : rt.method = method /\ rt.pattern = pattern }

\* the handlers registered so far for (method, pattern), in order
Registrations(rtr, method, pattern) ==
    IF Registered(rtr, method, pattern) = {}
    THEN <<>>
    ELSE (CHOOSE rt \in Registered(rtr, method, pattern) :
              \A other \in Registered(rtr, method, pattern) : Len(other.log) <= Len(rt.log)).log

\* handlers[method][pattern] = handlers: the entry of the pair is replaced
Assign_keep(rtr, method, pattern, route) == rtr.handlers \cup {route}

Assign(rtr, method, pattern, route) ==
    (rtr.handlers \ Registered(rtr, method, pattern)) \cup {route}

\* RouterGroup.addRoute; group, global, applied and log record the registration
addRoute(g, method, comp, handler) ==
    /\ phase = "setup"
    /\ LET pattern == groups[g].prefix \o comp
           route == [method |-> method, pattern |-> pattern,
                     handlers |-> combineHandlers(router, groups[g], handler),
                     group |-> g, global |-> groups[1].applied,
                     applied |-> groups[g].applied,
                     log |-> Append(Registrations(router, method, pattern), handler)]
       IN  router' = [router EXCEPT !.handlers = Assign(router, method, pattern, route)]
    /\ UNCHANGED <<variant, groups, servingVars, limiterVars, arrays>>

\* Engine.Routes: one Route per entry of the table, counted per (method, path)
Routes(rtr) ==
    [pair \in { <<rt.method, rt.pattern>> : rt \in rtr.handlers } |->
        Cardinality(Registered(rtr, pair[1], pair[2]))]

\* Engine.Serve: registration is over
Serve ==
    /\ phase = "setup"
    /\ phase' = "idle"
    /\ UNCHANGED <<variant, router, groups, req, c, w, stack, trace, limiterVars, arrays>>

\* Engine.ServeHTTP: NewContext, then Router.handle up to its call of c.Next()
ServeHTTP(method, path) ==
    /\ phase \in {"idle", "done"}
    /\ req' = [method |-> method, path |-> path, token |-> "missing", ip |-> "A"]
    /\ \E out \in handle(variant, router, method, path) :
          /\ c' = out.c
          /\ w' = out.w
          /\ trace' = out.log
          /\ stack' = IF out.run
                      THEN <<Frame("handle", -1, <<>>, out.post), Frame("Next", -1, <<>>, "")>>
                      ELSE <<>>
          /\ phase' = IF out.run THEN "running" ELSE "done"
    /\ UNCHANGED <<variant, router, groups, limiterVars, arrays>>

\* c.Next() has returned into handle or handleOptions, which checks
\* c.Writer.Status() == 0 before writing 404 or 204
AfterNext ==
    /\ Running("handle")
    /\ Top.post # ""
    /\ LET s == IF Status(c) # 0 THEN Serving(c, w)
                ELSE IF Top.post = "notfound" THEN writeNotFound(variant, Serving(c, w))
                ELSE Context_Text(variant, Serving(c, w), StatusNoContent, "")
       IN  /\ c' = s.c
           /\ w' = s.w
    /\ stack' = <<>>
    /\ phase' = "done"
    /\ UNCHANGED <<trace, req, variant, router, groups, limiterVars, arrays>>

Next ==
    \/ \E m \in GlobalMiddleware : EngineApply(m)
    \/ \E g \in 2..Len(groups) : GroupApply(g)
    \/ \E g \in 1..Len(groups) : GroupRoutes(g)
    \/ \E g \in 1..Len(groups), method \in RouteMethods, comp \in Comps :
          Cardinality(router.handlers) < MaxRoutes /\ addRoute(g, method, comp, "H")
    \/ Serve
    \/ \E method \in Methods, path \in RequestPaths : ServeHTTP(method, path)
    \/ NextLoop
    \/ HandlerReturn
    \/ CallNext
    \/ CallWrite
    \/ FinishChain
    \/ AfterNext

Spec == InitRouter /\ [][Next]_vars

\* ----------------------------------------------------- router properties
\* the handlers executed for the request, in order
Executed ==
    LET execs == SelectSeq(trace, IsExec)
    IN  [i \in DOMAIN execs |-> c.Handlers[execs[i].idx + 1]]

\* rt was registered on a leaf group made from a group made from the engine's,
\* after G was applied to the router, P to the parent before the leaf was made
\* and L to the leaf
NestedGPL(rt) ==
    /\ groups[rt.group].parent >= 2
    /\ groups[groups[rt.group].parent].parent = 1
    /\ rt.global = <<"G">>
    /\ groups[rt.group].parentApplied = <<"P">>
    /\ rt.applied = <<"L">>

Served(rt) ==
    /\ phase = "done"
    /\ req.method = rt.method
    /\ req.method # "OPTIONS"
    /\ Matching(variant, router, req.method, req.path) = {rt}

\* C1: a request matching a route of a two-level nested group, with G
\* global, P on the parent before the leaf was made and L on the leaf, runs
\* exactly G, P, L and the route handler, in that order.
C1_NestedGroupOrder ==
    \A rt \in router.handlers :
        (NestedGPL(rt) /\ Served(rt)) => Executed = <<"G", "P", "L", "H">>

\* no global middleware of the router writes a status
NoStatusWritten ==
    \A i \in DOMAIN router.globalMiddleware : router.globalMiddleware[i] # "W"

\* C10: a request, not OPTIONS, that matches no route ends with status 404
\* and body "404 NOT FOUND" when no global middleware writes a status, with
\* or without global middleware.
C10_NotFound ==
    (/\ phase = "done"
     /\ req.method # "OPTIONS"
     /\ Matching(variant, router, req.method, req.path) = {}
     /\ NoStatusWritten) =>
        /\ w.status = StatusNotFound
        /\ w.body = <<"404 NOT FOUND">>

\* a request, not OPTIONS, that matched no route while global middleware is
\* registered
UnmatchedWithGlobal ==
    /\ phase = "done"
    /\ req.method # "OPTIONS"
    /\ Matching(variant, router, req.method, req.path) = {}
    /\ Len(router.globalMiddleware) > 0

\* C11: for an unmatched request, not OPTIONS, with global middleware
\* registered, the middleware runs before any 404 is supplied: when a global
\* middleware writes status 403 the response status is 403 and no 404 is
\* written.
C11_MiddlewareStatusWins ==
    (UnmatchedWithGlobal /\ ~NoStatusWritten) =>
        /\ w.status = StatusForbidden
        /\ \A p \in Events : ~(trace[p].ev = "write" /\ trace[p].code = StatusNotFound)

\* C13: an OPTIONS request that matches no OPTIONS route, with global
\* middleware registered of which none writes a status, runs the global
\* middleware alone and ends with status 204.
C13_OptionsDefault ==
    (/\ phase = "done"
     /\ req.method = "OPTIONS"
     /\ Matching(variant, router, "OPTIONS", req.path) = {}
     /\ Len(router.globalMiddleware) > 0
     /\ NoStatusWritten) =>
        /\ Executed = router.globalMiddleware
        /\ w.status = StatusNoContent

\* C17: a request that matches a registered route executes every middleware
\* of the global list, whatever the group of the route and whether the route
\* was registered before or after the middleware was applied.
C17_GlobalOnEveryRoute ==
    \A rt \in router.handlers :
        Served(rt) =>
            \A i \in DOMAIN router.globalMiddleware :
                Has(Executed, router.globalMiddleware[i])

\* group h is group g or was made from it, directly or not
RECURSIVE IsUnder(_, _)
IsUnder(h, g) == h # 0 /\ (h = g \/ IsUnder(groups[h].parent, g))

\* C19: applying middleware to a group never changes the global list of
\* the router (which holds what was applied to the engine), and the
\* middleware of a group runs only for routes of that group and its
\* descendants.
C19_GroupScoped ==
    /\ router.globalMiddleware = groups[1].applied
    /\ \A rt \in router.handlers :
          Served(rt) =>
              \A g \in 2..Len(groups) :
                  Has(Executed, GroupMiddleware(g)) => IsUnder(rt.group, g)

\* the routes registered under the method of the request whose pattern matches
\* its path, by matchPath itself
OwnMatches ==
    { rt \in router.handlers :
        rt.method = req.method /\ matchPath(variant, rt.pattern, req.path).ok }

\* C24: for a request of any method, OPTIONS included, that matches a
\* registered route, with global middleware that all call Next, the handlers
\* executed are the global middleware, each once and in registration order,
\* and then the rest of the chain of the route, the route handler last.
C24_GlobalOnceInOrder ==
    (/\ phase = "done"
     /\ OwnMatches # {}
     /\ \A i \in DOMAIN router.globalMiddleware : router.globalMiddleware[i] = "G") =>
        /\ SelectSeq(Executed, LAMBDA h : h = "G") = router.globalMiddleware
        /\ SubSeq(Executed, 1, Len(router.globalMiddleware)) = router.globalMiddleware
        /\ Executed # <<>> /\ Executed[Len(Executed)] = "H"

\* ------------------------------------- an engine with routes and no more
\* (no group, no middleware): registrations on the engine, then requests
MaxFlatRoutes == 2
MaxRegistrations == 2
RouteHandlers == {"H", "H2"}

\* request paths with one segment that validatePathParam refuses: a denied
\* character, a character outside the allowed ones, more than maxLenght characters
FlatPaths ==
    RequestPaths \cup {<<"/", ";">>, <<"/", ".">>, <<"/">> \o [i \in 1..(maxLenght + 1) |-> "a"]}

NextFlat ==
    \/ \E method \in RouteMethods, comp \in Comps, handler \in RouteHandlers :
          /\ Cardinality(router.handlers) < MaxFlatRoutes
          /\ Len(Registrations(router, method, comp)) < MaxRegistrations
          /\ addRoute(1, method, comp, handler)
    \/ Serve
    \/ \E method \in Methods, path \in FlatPaths : ServeHTTP(method, path)
    \/ NextLoop
    \/ HandlerReturn
    \/ CallWrite
    \/ FinishChain
    \/ AfterNext

SpecFlat == InitRouter /\ [][NextFlat]_vars

Replaced(rt) ==
    { rt.log[i] : i \in 1..(Len(rt.log) - 1) } \ {rt.log[Len(rt.log)]}

\* C16: registering a (method, pattern) again leaves one entry for the pair,
\* whose chain ends with the handler registered last; Routes lists the pair
\* once and no request of that method that can only match the pair executes a
\* replaced handler.
C16_LastRegistrationWins ==
    \A rt \in router.handlers :
        /\ Registered(router, rt.method, rt.pattern) = {rt}
        /\ Routes(router)[<<rt.method, rt.pattern>>] = 1
        /\ rt.handlers[Len(rt.handlers)] = rt.log[Len(rt.log)]
        /\ (/\ phase = "done"
            /\ req.method = rt.method
            /\ Matching(variant, router, req.method, req.path)
                  \subseteq Registered(router, rt.method, rt.pattern)) =>
               \A h \in Replaced(rt) : ~Has(Executed, h)

\* a pair registered with one handler, then another, served a request
C16_Witness ==
    /\ phase = "done"
    /\ \E rt \in router.handlers :
          /\ Replaced(rt) # {}
          /\ Served(rt)
          /\ Executed = <<rt.log[Len(rt.log)]>>

MaxApply == 3

\* a slice: its backing array (0: none, the nil slice) and its length; the
\* capacity is the length of the array
Slice(array, len) == [array |-> array, len |-> len]
NilSlice == Slice(0, 0)
Nil == "nil"

Cap(arrs, s) == IF s.array = 0 THEN 0 ELSE Len(arrs[s.array])
Elems(arrs, s) == IF s.array = 0 THEN <<>> ELSE SubSeq(arrs[s.array], 1, s.len)

\* the result of an allocation or an append: the arrays after it and the slice
Stored(arrs, s) == [arrays |-> arrs, slice |-> s]

\* make([]HandlerFunc, len, cap): a new array of zero values
make(arrs, len, cap) ==
    Stored(Append(arrs, [i \in 1..cap |-> Nil]), Slice(Len(arrs) + 1, len))

\* copy(dst, src): the first min(len(dst), len(src)) elements
copy(arrs, dst, src) ==
    IF dst.array = 0 THEN arrs
    ELSE [arrs EXCEPT ![dst.array] =
            [i \in DOMAIN @ |-> IF i <= dst.len /\ i <= src.len
                                 THEN arrs[src.array][i] ELSE @[i]]]

\* append(s, ms...): in place when the capacity allows, else into a new array
\* of twice the capacity, or of the length needed when that is more
append(arrs, s, ms) ==
    LET len == s.len + Len(ms)
        put(array) == [i \in DOMAIN array |->
                         IF s.len < i /\ i <= len THEN ms[i - s.len] ELSE array[i]]
    IN  IF len <= Cap(arrs, s)
        THEN Stored([arrs EXCEPT ![s.array] = put(@)], Slice(s.array, len))
        ELSE LET grown == make(arrs, len, Max(2 * Cap(arrs, s), len))
                 moved == copy(grown.arrays, grown.slice, s)
             IN  Stored([moved EXCEPT ![grown.slice.array] = put(@)], grown.slice)

\* NewRouter: globalMiddleware is made with capacity 10 in router.go and with
\* none in the other routers
NewGlobalMiddleware(v) ==
    IF v = "root" THEN make(NoArrays, 0, 10) ELSE make(NoArrays, 0, 0)

\* zen.New: the router and the engine's own group, whose middlewares is nil
InitGroups ==
    /\ variant \in {"root", "part000", "pkg"}
    /\ phase = "setup"
    /\ arrays = NewGlobalMiddleware(variant).arrays
    /\ router = [handlers |-> {}, globalMiddleware |-> NewGlobalMiddleware(variant).slice]
    /\ groups = <<RouterGroup(<<>>, NilSlice, 0, <<>>)>>
    /\ req = NoRequest
    /\ c = NoContext
    /\ w = NoWriter
    /\ stack = <<>>
    /\ trace = NoTrace
    /\ rl = NewRateLimiter(RateLimitConfig(IPBased, 1, 0, 1, 0, 0, 0, 0))
    /\ now = 0
    /\ last = NoCall
    /\ hist = [k \in Keys |-> NoHist]
    /\ gor = NoGoroutines

\* the number of Apply calls made so far
RECURSIVE Applied(_)
Applied(g) == IF g = 0 THEN 0 ELSE Len(groups[g].applied) + Applied(g - 1)

\* RouterGroup.Apply: group.middlewares = append(group.middlewares, m);
\* RouterGroup.Use of pkg/zen then appends m to the router's list as well
RouterGroup_Apply(g, m) ==
    /\ phase = "setup"
    /\ LET own == append(arrays, groups[g].middlewares, <<m>>)
           global == append(own.arrays, router.globalMiddleware, <<m>>)
       IN  /\ groups' = [groups EXCEPT ![g].middlewares = own.slice,
                                       ![g].applied = Append(@, m)]
           /\ IF variant = "pkg"
              THEN /\ arrays' = global.arrays
                   /\ router' = [router EXCEPT !.globalMiddleware = global.slice]
              ELSE /\ arrays' = own.arrays
                   /\ UNCHANGED router
    /\ UNCHANGED <<variant, servingVars, limiterVars>>

\* the middlewares of a new group: made with the parent's length (router.go:
\* with length 0 and the parent's length as capacity), then filled by copy
Inherit_alias(arrs, v, parent) == Stored(arrs, parent)

Inherit(arrs, v, parent) ==
    LET made == IF v = "root" THEN make(arrs, 0, parent.len)
                ELSE make(arrs, parent.len, parent.len)
    IN  Stored(copy(made.arrays, made.slice, parent), made.slice)

\* RouterGroup.GroupRoutes
RouterGroup_GroupRoutes(g) ==
    /\ phase = "setup"
    /\ LET new == Inherit(arrays, variant, groups[g].middlewares)
       IN  /\ arrays' = new.arrays
           /\ groups' = Append(groups, RouterGroup(groups[g].prefix \o GroupPrefix,
                                                  new.slice, g, groups[g].applied))
    /\ UNCHANGED <<variant, router, servingVars, limiterVars>>

NextGroups ==
    \/ \E g \in DOMAIN groups, m \in {"P", "L"} :
          Applied(Len(groups)) < MaxApply /\ RouterGroup_Apply(g, m)
    \/ \E g \in DOMAIN groups : Len(groups) < MaxGroups /\ RouterGroup_GroupRoutes(g)

SpecGroups == InitGroups /\ [][NextGroups]_vars

\* group.middlewares as a list
Middlewares(arrs, group) == Elems(arrs, group.middlewares)

\* C18: Apply (Use) on a group changes the middleware list of no other group,
\* neither of a child created from it before nor of its parent, and the lists of
\* two groups are never stored in the same array.
C18_Snapshot ==
    /\ [](\A g, h \in DOMAIN groups :
            (g # h /\ groups[g].middlewares.array # 0) =>
                groups[g].middlewares.array # groups[h].middlewares.array)
    /\ [][\A g \in DOMAIN groups :
            groups'[g].applied = groups[g].applied =>
                Middlewares(arrays', groups'[g]) = Middlewares(arrays, groups[g])]_vars

\* a child was created from a group that had middleware, then both the parent
\* and the child applied more, and the two lists differ
C18_Witness ==
    \E g \in DOMAIN groups :
        /\ groups[g].parent # 0
        /\ groups[g].parentApplied # <<>>
        /\ groups[g].applied # <<>>
        /\ Len(groups[groups[g].parent].applied) > Len(groups[g].parentApplied)
        /\ Middlewares(arrays, groups[g]) # Middlewares(arrays, groups[groups[g].parent])

\* ------------------------------------------- OPTIONS requests in flight
\* net/http serves every request in a goroutine of its own; here the requests
\* are OPTIONS requests, whose chain handleOptions builds with append
MaxInFlight == 2
InFlightIds == 1..MaxInFlight
OptionsPaths == {<<"/", "c">>, <<"/", "x">>}
NoChain == [pc |-> "idle", path |-> <<>>, chain |-> <<>>, Handlers |-> NilSlice,
            Index |-> -1, ran |-> <<>>]

\* the handler of the route registered for a pattern
HandlerOf(comp) == IF comp = <<"/", "c">> THEN "H" ELSE "H2"

InitOptions ==
    /\ variant \in {"root", "part000", "pkg"}
    /\ phase = "setup"
    /\ arrays = NewGlobalMiddleware(variant).arrays
    /\ router = [handlers |-> {}, globalMiddleware |-> NewGlobalMiddleware(variant).slice]
    /\ groups = <<RouterGroup(<<>>, NilSlice, 0, <<>>)>>
    /\ gor = [g \in InFlightIds |-> NoChain]
    /\ req = NoRequest
    /\ c = NoContext
    /\ w = NoWriter
    /\ stack = <<>>
    /\ trace = NoTrace
    /\ rl = NewRateLimiter(RateLimitConfig(IPBased, 1, 0, 1, 0, 0, 0, 0))
    /\ now = 0
    /\ last = NoCall
    /\ hist = [k \in Keys |-> NoHist]

\* Router.Apply (Router.Use): r.globalMiddleware = append(r.globalMiddleware, m)
Router_Apply(m) ==
    /\ phase = "setup"
    /\ LET global == append(arrays, router.globalMiddleware, <<m>>)
       IN  /\ arrays' = global.arrays
           /\ router' = [router EXCEPT !.globalMiddleware = global.slice]
    /\ UNCHANGED <<variant, groups, servingVars, limiterVars>>

\* engine.OPTIONS(comp, handler): addRoute stores the chain that combineHandlers
\* makes, a new slice with the global middleware of the moment and the handler
OPTIONS(comp) ==
    /\ phase = "setup"
    /\ Registered(router, "OPTIONS", comp) = {}
    /\ router' = [router EXCEPT !.handlers = @ \cup
                    {[method |-> "OPTIONS", pattern |-> comp,
                      handlers |-> Elems(arrays, router.globalMiddleware)
                                     \o <<HandlerOf(comp)>>]}]
    /\ UNCHANGED <<variant, groups, arrays, servingVars, limiterVars>>

\* handleOptions up to c.Next(), in the goroutine g of a request: the chain is
\* append(r.globalMiddleware, handlers...) for a matching route (pkg/zen: a
\* copy of the global middleware, whatever matches), else r.globalMiddleware
HandleOptions(g, path) ==
    /\ phase = "idle"
    /\ gor[g].pc = "idle"
    /\ LET copied == make(arrays, router.globalMiddleware.len, router.globalMiddleware.len)
           matches == Matching(variant, router, "OPTIONS", path)
           serve(chain, built) ==
               /\ arrays' = built.arrays
               /\ gor' = [gor EXCEPT ![g] = [pc |-> "next", path |-> path, chain |-> chain,
                                             Handlers |-> built.slice, Index |-> 0,
                                             ran |-> <<>>]]
       IN  IF variant = "pkg"
           THEN serve(<<>>, Stored(copy(copied.arrays, copied.slice, router.globalMiddleware),
                                   copied.slice))
           ELSE IF matches # {}
           THEN \E rt \in matches :
                   serve(rt.handlers, append(arrays, router.globalMiddleware, rt.handlers))
           ELSE serve(<<>>, Stored(arrays, router.globalMiddleware))
    /\ UNCHANGED <<variant, router, groups, servingVars, rl, now, last, hist>>

\* the loop of c.Next() in goroutine g: c.Handlers[c.Index](c), then c.Index++
RunHandler(g) ==
    /\ gor[g].pc = "next"
    /\ gor[g].Index < gor[g].Handlers.len
    /\ gor' = [gor EXCEPT ![g].ran = Append(@, arrays[gor[g].Handlers.array][gor[g].Index + 1]),
                          ![g].Index = @ + 1]
    /\ UNCHANGED <<variant, router, groups, arrays, servingVars, rl, now, last, hist>>

\* c.Next() returns and the request is over
Respond(g) ==
    /\ gor[g].pc = "next"
    /\ gor[g].Index >= gor[g].Handlers.len
    /\ gor' = [gor EXCEPT ![g].pc = "done"]
    /\ UNCHANGED <<variant, router, groups, arrays, servingVars, rl, now, last, hist>>

NextOptions ==
    \/ router.globalMiddleware.len < MaxGlobal /\ Router_Apply("G")
    \/ \E comp \in Comps : OPTIONS(comp)
    \/ Serve
    \/ \E g \in InFlightIds, path \in OptionsPaths : HandleOptions(g, path)
    \/ \E g \in InFlightIds : RunHandler(g)
    \/ \E g \in InFlightIds : Respond(g)

SpecOptions == InitOptions /\ [][NextOptions]_vars

\* C25: serving writes neither the global middleware list nor a stored
\* chain, and with requests in flight at once every request executes the
\* global middleware followed by the chain of its own matched route: what it
\* has executed so far is the beginning of that list, and all of it at the end.
C25_ChainsIsolated ==
    \A g \in InFlightIds :
        LET own == Elems(arrays, router.globalMiddleware) \o gor[g].chain
        IN  /\ gor[g].pc # "idle" =>
                  /\ Len(gor[g].ran) <= Len(own)
                  /\ gor[g].ran = SubSeq(own, 1, Len(gor[g].ran))
            /\ (gor[g].pc = "done" /\ variant # "pkg") => gor[g].ran = own

\* -------------------------------------------------- matchPath on its own
MaxSegments == 3
PatternSegments == {<<"a">>, <<"c">>, <<":", "x">>}
PathSegments == {<<"a">>, <<"c">>, <<";">>, <<"a", " ", "c">>}

\* "/" + segment for each segment
RECURSIVE Join(_)
Join(segments) ==
    IF segments = <<>> THEN <<>> ELSE <<"/">> \o Head(segments) \o Join(Tail(segments))

SegmentLists(alphabet) == UNION { [1..n -> alphabet] : n \in 1..MaxSegments }

\* patterns in which no parameter name occurs twice
Patterns ==
    { Join(segments) : segments \in
        { ss \in SegmentLists(PatternSegments) :
            \A i, j \in DOMAIN ss : (i # j /\ HasPrefix(ss[i])) => ss[i] # ss[j] } }

\* paths, with and without a trailing slash, and with an empty segment inside
Paths ==
    { Join(segments) : segments \in SegmentLists(PathSegments) }
        \cup { Join(segments) \o <<"/">> : segments \in SegmentLists(PathSegments) }
        \cup { Join(<<s1, <<>>, s2>>) : s1, s2 \in PathSegments }

InitMatch ==
    /\ variant \in {"root", "part000", "pkg"}
    /\ phase = "idle"
    /\ \E pattern \in Patterns :
          router = [NewRouter EXCEPT !.handlers =
                      {[method |-> "GET", pattern |-> pattern, handlers |-> <<"H">>,
                        group |-> 1, global |-> <<>>, applied |-> <<>>, log |-> <<"H">>]}]
    /\ \E path \in Paths :
          req = [method |-> "GET", path |-> path, token |-> "missing", ip |-> "A"]
    /\ groups = New
    /\ c = NewContext
    /\ w = NoWriter
    /\ stack = <<>>
    /\ trace = NoTrace
    /\ rl = NewRateLimiter(RateLimitConfig(IPBased, 1, 0, 1, 0, 0, 0, 0))
    /\ now = 0
    /\ last = NoCall
    /\ hist = [k \in Keys |-> NoHist]
    /\ gor = NoGoroutines
    /\ arrays = NoArrays

\* params, ok := matchPath(pattern, path); c.Params = params on a match
MatchPath ==
    /\ phase = "idle"
    /\ \E rt \in router.handlers :
          LET res == matchPath(variant, rt.pattern, req.path)
          IN  /\ phase' = IF res.ok THEN "matched" ELSE "unmatched"
              /\ c' = [c EXCEPT !.Params = res.params]
    /\ UNCHANGED <<variant, router, groups, req, w, stack, trace, limiterVars, arrays>>

NextMatch == MatchPath

SpecMatch == InitMatch /\ [][NextMatch]_vars

\* the reference matcher: segments between '/', outer slashes trimmed
Segments(s) == Split(Trim(s), {"/"})

ReferenceMatch(pattern, path) ==
    /\ Len(Segments(pattern)) = Len(Segments(path))
    /\ \A i \in DOMAIN Segments(pattern) :
          HasPrefix(Segments(pattern)[i]) \/ Segments(pattern)[i] = Segments(path)[i]

ReferenceParams(pattern, path) ==
    { <<Tail(Segments(pattern)[i]), Segments(path)[i]>> :
        i \in { k \in DOMAIN Segments(pattern) : HasPrefix(Segments(pattern)[k]) } }

\* C15: matchPath matches exactly when pattern and path have the same number
\* of '/'-separated segments and every literal segment of the pattern equals
\* the segment of the path at its place; on a match every ':name' is bound to
\* the text of the path segment at its place.
C15_MatchesReference ==
    \A rt \in router.handlers :
        /\ phase = "matched" =>
              /\ ReferenceMatch(rt.pattern, req.path)
              /\ c.Params = ReferenceParams(rt.pattern, req.path)
        /\ phase = "unmatched" => ~ReferenceMatch(rt.pattern, req.path)

\* C27: a parameter segment matches a non-empty path segment only: on every
\* match, every value bound in the parameter map is a non-empty string.
C27_ParamsNonEmpty ==
    phase = "matched" => \A pv \in c.Params : pv[2] # <<>>

\* the pattern of rt fits the path segment by segment, with a parameter value
\* that validatePathParam refuses
InvalidParam(rt) ==
    /\ ReferenceMatch(rt.pattern, req.path)
    /\ \E pv \in ReferenceParams(rt.pattern, req.path) : ~validatePathParam(pv[2])

InitRL ==
    /\ rl \in { NewRateLimiter(cfg) : cfg \in Configs }
    /\ now = 0
    /\ last = NoCall
    /\ hist = [k \in Keys |-> NoHist]
    /\ gor = NoGoroutines
    /\ arrays = NoArrays
    /\ variant = "root"
    /\ phase = "off"
    /\ req = NoRequest
    /\ c = NoContext
    /\ w = NoWriter
    /\ stack = <<>>
    /\ trace = NoTrace
    /\ router = NewRouter
    /\ groups = <<>>

\* time passes between calls
Tick ==
    /\ now < MaxTime
    /\ now' = now + 1
    /\ UNCHANGED <<rl, last, hist, gor, httpVars>>

\* one call of limiter.isAllowed(key), now := time.Now()
Allow(key) ==
    LET res == isAllowed(rl, key, now) IN
    /\ rl' = res.rl
    /\ last' = [key |-> key, allowed |-> res.allowed, at |-> now,
                opened |-> Opens(hist[key], now, rl.config.Window),
                before |-> hist[key].allowed]
    /\ hist' = [hist EXCEPT ![key] = Observe(hist[key], now, rl.config.Window, res.allowed)]
    /\ UNCHANGED <<now, gor, httpVars>>

NextRL == Tick \/ \E key \in Keys : Allow(key)

SpecRL == InitRL /\ [][NextRL]_vars

\* -------------------------------------- one call on a sliding-window entry
\* Key A has an entry with a count that calls within one window can have
\* reached; time passes and one call is made.
MaxSeedCount == 22
MaxSeedWindow == 22

SeedLimiters ==
    { Store(NewRateLimiter(RateLimitConfig(SlidingWindow, l, 0, win, 0, 0, 0, 0)),
            "A", windowEntry(cnt, ZeroTime, 0, ZeroTime)) :
        cnt \in 1..MaxSeedCount, l \in 1..(MaxSeedCount + 1), win \in 1..MaxSeedWindow }

InitSeed ==
    /\ rl \in { r \in SeedLimiters : Entry(r, "A").count <= r.config.Limit
                                     /\ r.config.Limit <= Entry(r, "A").count + 1 }
    /\ now = 0
    /\ last = NoCall
    /\ hist = [k \in Keys |-> NoHist]
    /\ gor = NoGoroutines
    /\ arrays = NoArrays
    /\ variant = "root"
    /\ phase = "off"
    /\ req = NoRequest
    /\ c = NoContext
    /\ w = NoWriter
    /\ stack = <<>>
    /\ trace = NoTrace
    /\ router = NewRouter
    /\ groups = <<>>

\* time passes before the call
Elapse ==
    /\ last = NoCall
    /\ now < 2 * rl.config.Window + 1
    /\ now' = now + 1
    /\ UNCHANGED <<rl, last, hist, gor, httpVars>>

NextSeed == Elapse \/ \E key \in Keys : last = NoCall /\ Allow(key)

SpecSeed == InitSeed /\ [][NextSeed]_vars

Allowance == rl.config.Limit + rl.config.BurstLimit

Rollover(r, key, t) == t - Entry(r, key).startTime > r.config.Window

\* C28: sliding window: a call arriving more than Window after the window
\* start sets the count to floor(previousCount * weight) + 1 with
\* weight = max(0, Window - (elapsed - Window)) / Window, sets the window start
\* to now and is allowed iff that count is below Limit+BurstLimit; a call within
\* a still-open window is allowed iff count < Limit+BurstLimit and increments
\* the count when allowed.
C28_SlidingSeed ==
    [][(rl.config.Strategy = SlidingWindow /\ last' # last /\ rl.windows[last'.key] # NoEntry) =>
          LET key == last'.key
              before == Entry(rl, key)
              after == Entry(rl', key)
              elapsed == now - before.startTime
              seeded == (before.count * Max(0, rl.config.Window - (elapsed - rl.config.Window)))
                            \div rl.config.Window + 1
          IN  IF Rollover(rl, key, now)
              THEN /\ after.count = seeded
                   /\ after.startTime = now
                   /\ last'.allowed <=> seeded < Allowance
              ELSE /\ last'.allowed <=> before.count < Allowance
                   /\ after.count = before.count + (IF last'.allowed THEN 1 ELSE 0)
                   /\ after.startTime = before.startTime]_vars

\* ------------------------------------- sliding window, calls kept by instant
\* Calls of one key on a sliding-window limiter (the keys are independent, C9);
\* trace keeps the key and the instant of every allowed call.
Admit(key) ==
    LET res == isAllowed(rl, key, now) IN
    /\ rl' = res.rl
    /\ last' = [key |-> key, allowed |-> res.allowed, at |-> now,
                opened |-> Opens(hist[key], now, rl.config.Window),
                before |-> hist[key].allowed]
    /\ hist' = [hist EXCEPT ![key] = Observe(hist[key], now, rl.config.Window, res.allowed)]
    /\ trace' = IF res.allowed THEN Append(trace, [key |-> key, at |-> now]) ELSE trace
    /\ UNCHANGED <<now, gor, variant, phase, req, c, w, stack, router, groups, arrays>>

InitSlide == InitRL /\ rl.config.Strategy = SlidingWindow

NextSlide == Tick \/ Admit("A")

SpecSlide == InitSlide /\ [][NextSlide]_vars

\* the number of calls of key allowed in the interval [from, from + length)
AllowedWithin(key, from, length) ==
    Cardinality({ i \in DOMAIN trace :
                    /\ trace[i].key = key
                    /\ from <= trace[i].at
                    /\ trace[i].at < from + length })

\* C29: sliding window: for any key and any time interval of length Window the
\* number of calls allowed within the interval is at most Limit+BurstLimit.
C29_NoEdgeBurst ==
    \A key \in Keys : \A from \in 0..MaxTime :
        AllowedWithin(key, from, rl.config.Window) <= Allowance

\* ------------------------------------------------- fixed window, one key
FixedWindow == rl.config.Strategy = IPBased

\* C7 as stated: within one window the number of allowed calls never exceeds
\* Limit+BurstLimit, and a call arriving more than Window after the window
\* start is allowed and opens a new window with count 1.
C7_Original ==
    FixedWindow =>
        /\ \A key \in Keys : hist[key].allowed <= Allowance
        /\ (last.key # "" /\ ~last.opened /\ last.before >= Allowance) => ~last.allowed
        /\ (last.key # "" /\ last.opened) =>
              /\ last.allowed
              /\ Entry(rl, last.key).count = 1
              /\ Entry(rl, last.key).startTime = last.at

\* C7 amended: the call that opens a window is always allowed, so the number
\* of allowed calls in one window never exceeds max(1, Limit+BurstLimit); every
\* call of the window after that many is denied; the first call arriving more
\* than Window after the window start is allowed and opens a new window with
\* count 1.
C7_FixedWindow ==
    FixedWindow =>
        /\ \A key \in Keys : hist[key].allowed <= Max(1, Allowance)
        /\ (last.key # "" /\ ~last.opened /\ last.before >= Max(1, Allowance)) =>
              ~last.allowed
        /\ (last.key # "" /\ last.opened) =>
              /\ last.allowed
              /\ Entry(rl, last.key).count = 1
              /\ Entry(rl, last.key).startTime = last.at

\* a second window of a key has been used up and the next call was denied
C7_Witness ==
    /\ FixedWindow
    /\ Allowance >= 2
    /\ last.key # ""
    /\ ~last.allowed
    /\ hist[last.key].n >= 2
    /\ hist[last.key].allowed = Allowance

\* ------------------------------------------------------------ token bucket
Bucket == rl.config.Strategy = TokenBucket
Full == rl.config.BucketSize * TicksPerSecond
OneToken == TicksPerSecond

TokensInRange ==
    \A key \in Keys :
        rl.windows[key] # NoEntry => 0 <= Entry(rl, key).tokens /\ Entry(rl, key).tokens <= Full

\* what a call at the instant now finds after the refill: the tokens of the
\* entry plus elapsedSeconds * TokenRate, capped at BucketSize
Refilled(entry) == Min(Full, entry.tokens + (now - entry.lastUpdate) * rl.config.TokenRate)

NotBlocked(entry) == ~(entry.blocked /\ now < entry.blockedUntil)

\* the refill, the decision and the decrement of one call that finds entry
RefillThenTake(entry, allowed, after) ==
    /\ allowed <=> Refilled(entry) > OneToken
    /\ after.tokens = IF allowed THEN Refilled(entry) - OneToken ELSE Refilled(entry)

C31_BlockHolds ==
    [][(Bucket /\ last' # last /\ rl.windows[last'.key] # NoEntry) =>
          LET found == Entry(rl, last'.key)
              after == Entry(rl', last'.key)
          IN  /\ (NotBlocked(found) /\ ~last'.allowed /\ rl.config.BlockDuration > 0) =>
                    /\ after.blocked
                    /\ after.blockedUntil = now + rl.config.BlockDuration
              /\ (found.blocked /\ now < found.blockedUntil) =>
                    /\ ~last'.allowed
                    /\ after = found
              /\ (found.blocked /\ now >= found.blockedUntil) =>
                    (last'.allowed <=> Refilled(found) > OneToken)]_vars

\* a call was denied while the key was blocked although the refill since the
\* denial that blocked it had brought back more than one token
C31_Witness ==
    /\ Bucket
    /\ last.key # ""
    /\ ~last.allowed
    /\ last.at = now
    /\ Entry(rl, last.key).blocked
    /\ Entry(rl, last.key).lastUpdate < last.at
    /\ last.at < Entry(rl, last.key).blockedUntil
    /\ Refilled(Entry(rl, last.key)) > OneToken

\* ------------------------------------- token bucket that never refills
\* Calls on a token bucket with TokenRate = 0; trace keeps the key and the
\* instant of every allowed call.
InitBurst == InitRL /\ Bucket /\ rl.config.TokenRate = 0

NextBurst == Tick \/ \E key \in Keys : Admit(key)

SpecBurst == InitBurst /\ [][NextBurst]_vars

\* the number of calls of key allowed so far
AllowedEver(key) == Cardinality({ i \in DOMAIN trace : trace[i].key = key })

TokensNeverIncrease ==
    \A key \in Keys :
        rl.windows[key] # NoEntry => Entry(rl', key).tokens <= Entry(rl, key).tokens

LeakyBucket == rl.config.Strategy = Leaky

\* one call that finds the count found, elapsed ticks of a clock of tps ticks
\* to the second after the last update: the count is first reduced by
\* floor(elapsedSeconds * LeakRate), floored at 0; the call is allowed iff the
\* reduced count is below Limit and an allowed call increments the count
LeakThenAdd(found, elapsed, tps, allowed, after) ==
    LET reduced == Max(0, found - (elapsed * rl.config.LeakRate) \div tps)
    IN  /\ allowed <=> reduced < rl.config.Limit
        /\ after = reduced + (IF allowed THEN 1 ELSE 0)

\* -------------------------------------------- one call on a leaky bucket
\* Key A has an entry with a count that earlier calls can have reached; time
\* passes on a clock of FineTicksPerSecond ticks to the second and one call
\* is made.
FineTicksPerSecond == 25
MaxLeakTicks == 29
MaxLeakRate == 25
MaxLeakCount == 29

LeakLimiters ==
    { Store(NewRateLimiter(RateLimitConfig(Leaky, l, 0, 0, 0, 0, 0, lr)),
            "A", windowEntry(cnt, ZeroTime, 0, ZeroTime)) :
        cnt \in 1..MaxLeakCount, l \in 1..(MaxLeakCount + 1), lr \in {1, MaxLeakRate} }

InitLeak ==
    /\ rl \in { r \in LeakLimiters : Entry(r, "A").count <= r.config.Limit
                                     /\ r.config.Limit <= Entry(r, "A").count + 1 }
    /\ now = 0
    /\ last = NoCall
    /\ hist = [k \in Keys |-> NoHist]
    /\ gor = NoGoroutines
    /\ arrays = NoArrays
    /\ variant = "root"
    /\ phase = "off"
    /\ req = NoRequest
    /\ c = NoContext
    /\ w = NoWriter
    /\ stack = <<>>
    /\ trace = NoTrace
    /\ router = NewRouter
    /\ groups = <<>>

\* time passes before the call
Wait ==
    /\ last = NoCall
    /\ now < MaxLeakTicks
    /\ now' = now + 1
    /\ UNCHANGED <<rl, last, hist, gor, httpVars>>

\* one call of isLeakyBucketAllowed(key, now)
Leak(key) ==
    LET res == LeakyBucketAllowed(rl, key, now, FineTicksPerSecond) IN
    /\ last = NoCall
    /\ rl' = res.rl
    /\ last' = [key |-> key, allowed |-> res.allowed, at |-> now,
                opened |-> FALSE, before |-> 0]
    /\ UNCHANGED <<now, hist, gor, httpVars>>

NextLeak == Wait \/ \E key \in Keys : Leak(key)

SpecLeak == InitLeak /\ [][NextLeak]_vars

\* C33: leaky bucket: 0 <= count <= Limit in every reachable state; each call
\* (the first call of a key finds the count 0) first reduces the count by
\* floor(elapsedSeconds * LeakRate), floored at 0, is allowed iff the reduced
\* count is below Limit, and increments the count by 1 when allowed.
C33_LeakyBucket ==
    /\ [](\A key \in Keys : rl.windows[key] # NoEntry =>
             0 <= Entry(rl, key).count /\ Entry(rl, key).count <= rl.config.Limit)
    /\ [][last' # last =>
            LET key == last'.key IN
            IF rl.windows[key] = NoEntry
            THEN LeakThenAdd(0, 0, FineTicksPerSecond, last'.allowed, Entry(rl', key).count)
            ELSE LeakThenAdd(Entry(rl, key).count, now - Entry(rl, key).lastUpdate,
                             FineTicksPerSecond, last'.allowed, Entry(rl', key).count)]_vars

\* ---------------------------------- leaky bucket, calls kept by instant
\* Calls of one key on a leaky bucket; trace keeps the key and the instant of
\* every allowed call.
InitDrip == InitRL /\ LeakyBucket

SpecDrip == InitDrip /\ [][NextSlide]_vars

\* the instant of the last allowed call of key
LastAllowedAt(key) ==
    LET calls == { i \in DOMAIN trace : trace[i].key = key }
    IN  trace[CHOOSE i \in calls : \A j \in calls : j <= i].at

\* C34: leaky bucket: a key whose bucket is full (its last allowed call filled
\* it) is allowed again by a call made at least 1/LeakRate seconds after it
\* became full, however many denied calls of the key were made in between.
C34_ConstantLeak ==
    [][(/\ last' # last
        /\ rl.windows[last'.key] # NoEntry
        /\ rl.config.LeakRate > 0
        /\ rl.config.Limit >= 1
        /\ Entry(rl, last'.key).count = rl.config.Limit
        /\ (now - LastAllowedAt(last'.key)) * rl.config.LeakRate >= TicksPerSecond)
          => last'.allowed]_vars

\* ------------------------------------------------- the adaptive strategy
AdaptiveConfigs ==
    { [RateLimitConfig(Adaptive, l, 0, win, 0, 0, 0, 0)
         EXCEPT !.MinLimit = lo, !.MaxLimit = hi, !.ScalingFactor = sf] :
        l \in 0..MaxLimit, win \in 1..MaxWindow, lo \in {0, 1}, hi \in {0, MaxLimit},
        sf \in {0, 1} }

\* a limiter among limiters, no call made yet
InitLimiter(limiters) ==
    /\ rl \in limiters
    /\ now = 0
    /\ last = NoCall
    /\ hist = [k \in Keys |-> NoHist]
    /\ gor = NoGoroutines
    /\ arrays = NoArrays
    /\ variant = "root"
    /\ phase = "off"
    /\ req = NoRequest
    /\ c = NoContext
    /\ w = NoWriter
    /\ stack = <<>>
    /\ trace = NoTrace
    /\ router = NewRouter
    /\ groups = <<>>

InitAdaptive == InitLimiter({ NewRateLimiter(cfg) : cfg \in AdaptiveConfigs })

SpecAdaptive == InitAdaptive /\ [][NextRL]_vars

\* C39: isAllowed never modifies the limiter's configuration: after any
\* sequence of calls on any keys the configuration, the Limit with it, is the
\* one the limiter was constructed with.
C39_ConfigFrozen == [][rl'.config = rl.config]_vars

\* ------------------------------------------------------ all five strategies
InitAll == InitLimiter({ NewRateLimiter(cfg) : cfg \in Configs \cup AdaptiveConfigs })

SpecAll == InitAll /\ [][NextRL]_vars

EntryOf(r, key) == IF r.windows[key] = NoEntry THEN <<>> ELSE <<Entry(r, key)>>

\* C9: a call of isAllowed on one key leaves every other key's entry unchanged
\* and does not change the outcome (result and resulting entry) of a call on
\* the other key at any later instant; by induction the same holds of any
\* sequence of calls.  All four strategies are among the configurations.
C9_KeysIndependent ==
    [][\A other \in Keys :
          (other # last'.key /\ rl' # rl) =>
             /\ EntryOf(rl', other) = EntryOf(rl, other)
             /\ \A t \in now..MaxTime :
                   LET after == isAllowed(rl', other, t)
                       before == isAllowed(rl, other, t)
                   IN  /\ after.allowed = before.allowed
                       /\ EntryOf(after.rl, other) = EntryOf(before.rl, other)]_vars

\* key A is exhausted while key B, which has an entry, is still allowed
C9_Witness ==
    /\ last.key = "A"
    /\ ~last.allowed
    /\ rl.windows["B"] # NoEntry
    /\ isAllowed(rl, "B", now).allowed

\* ----------------------------- concurrent requests inside isIPBasedAllowed
\* sync.Map makes Load and Store atomic; the fields of the loaded
\* *windowEntry are read and written with no lock, one statement at a time.
NumGoroutines == 3
MaxConcTime == 2
Goroutines == 1..NumGoroutines

Idle == [pc |-> "idle", key |-> "", t |-> 0, ptr |-> NoEntry, tmp |-> 0, res |-> FALSE]

InitRLConc ==
    /\ rl \in { NewRateLimiter(cfg) : cfg \in { d \in WindowConfigs(IPBased) :
                                              d.Limit + d.BurstLimit >= 1 /\ d.Window = 1 } }
    /\ now = 0
    /\ last = NoCall
    /\ hist = [k \in Keys |-> NoHist]
    /\ gor = [g \in Goroutines |-> Idle]
    /\ arrays = NoArrays
    /\ variant = "root"
    /\ phase = "off"
    /\ req = NoRequest
    /\ c = NoContext
    /\ w = NoWriter
    /\ stack = <<>>
    /\ trace = NoTrace
    /\ router = NewRouter
    /\ groups = <<>>

\* time passes while requests are in flight
TickConc ==
    /\ now < MaxConcTime
    /\ now' = now + 1
    /\ UNCHANGED <<rl, last, hist, gor, httpVars>>

\* isAllowed(key): now := time.Now()
GCall(g, key) ==
    /\ gor[g].pc = "idle"
    /\ gor' = [gor EXCEPT ![g] = [Idle EXCEPT !.pc = "load", !.key = key, !.t = now]]
    /\ UNCHANGED <<rl, now, last, hist, httpVars>>

\* val, exists := rl.windows.Load(key)
GLoad(g) ==
    /\ gor[g].pc = "load"
    /\ gor' = [gor EXCEPT ![g].ptr = rl.windows[gor[g].key],
                          ![g].pc = IF rl.windows[gor[g].key] = NoEntry
                                    THEN "store" ELSE "window"]
    /\ UNCHANGED <<rl, now, last, hist, httpVars>>

\* rl.windows.Store(key, &windowEntry{count: 1, startTime: now}); return true
GStore(g) ==
    /\ gor[g].pc = "store"
    /\ rl' = Store(rl, gor[g].key, windowEntry(1, gor[g].t, 0, ZeroTime))
    /\ gor' = [gor EXCEPT ![g].pc = "done", ![g].res = TRUE]
    /\ UNCHANGED <<now, last, hist, httpVars>>

\* if now.Sub(entry.startTime) > rl.config.Window
GWindow(g) ==
    /\ gor[g].pc = "window"
    /\ gor' = [gor EXCEPT ![g].pc =
                 IF gor[g].t - rl.heap[gor[g].ptr].startTime > rl.config.Window
                 THEN "reset_count" ELSE "compare"]
    /\ UNCHANGED <<rl, now, last, hist, httpVars>>

\* entry.count = 1
GResetCount(g) ==
    /\ gor[g].pc = "reset_count"
    /\ rl' = [rl EXCEPT !.heap[gor[g].ptr].count = 1]
    /\ gor' = [gor EXCEPT ![g].pc = "reset_start"]
    /\ UNCHANGED <<now, last, hist, httpVars>>

\* entry.startTime = now; return true
GResetStart(g) ==
    /\ gor[g].pc = "reset_start"
    /\ rl' = [rl EXCEPT !.heap[gor[g].ptr].startTime = gor[g].t]
    /\ gor' = [gor EXCEPT ![g].pc = "done", ![g].res = TRUE]
    /\ UNCHANGED <<now, last, hist, httpVars>>

\* if entry.count < rl.config.Limit+rl.config.BurstLimit ... else return false
GCompare(g) ==
    /\ gor[g].pc = "compare"
    /\ gor' = [gor EXCEPT
                 ![g].tmp = rl.heap[gor[g].ptr].count,
                 ![g].pc = IF rl.heap[gor[g].ptr].count < rl.config.Limit + rl.config.BurstLimit
                           THEN "incr" ELSE "done",
                 ![g].res = FALSE]
    /\ UNCHANGED <<rl, now, last, hist, httpVars>>

\* entry.count++; return true.  The unsynchronised increment either reuses the
\* value the comparison read or reads the field again.
GIncr(g) ==
    /\ gor[g].pc = "incr"
    /\ \E v \in {gor[g].tmp, rl.heap[gor[g].ptr].count} :
            rl' = [rl EXCEPT !.heap[gor[g].ptr].count = v + 1]
    /\ gor' = [gor EXCEPT ![g].pc = "done", ![g].res = TRUE]
    /\ UNCHANGED <<now, last, hist, httpVars>>

NextRLConc ==
    \/ TickConc
    \/ \E g \in Goroutines :
         \/ \E key \in Keys : GCall(g, key)
         \/ GLoad(g)
         \/ GStore(g)
         \/ GWindow(g)
         \/ GResetCount(g)
         \/ GResetStart(g)
         \/ GCompare(g)
         \/ GIncr(g)

SpecRLConc == InitRLConc /\ [][NextRLConc]_vars

\* calls for key that have returned true
AllowedCalls(key) == { g \in Goroutines : gor[g].pc = "done" /\ gor[g].key = key /\ gor[g].res }
InFlight(key) == { g \in Goroutines : gor[g].pc \notin {"idle", "done"} /\ gor[g].key = key }

\* C6: concurrent isAllowed calls for one key behave as some sequential
\* execution would: within one window (no call later than Window after time 0)
\* at most Limit+BurstLimit calls are allowed, and once no call is in flight the
\* entry's count equals the number of allowed calls (no increment is lost).
C6_AtomicPerKey ==
    \A key \in Keys :
        now <= rl.config.Window =>
            /\ Cardinality(AllowedCalls(key)) <= rl.config.Limit + rl.config.BurstLimit
            /\ (InFlight(key) = {} /\ rl.windows[key] # NoEntry)
                  => Entry(rl, key).count = Cardinality(AllowedCalls(key))

====
